---- MODULE Spec2Model ----
(***************************************************************************)
(* A model of the Gambl interpreter: token stream -> recursive-descent     *)
(* parser (Parser.py) -> AST -> tree-walking evaluator over flat           *)
(* environments (Interpreter.py, environment.py).                          *)
(*                                                                         *)
(* Token texts, identifiers and string values are sequences of one-        *)
(* character strings, so that conversions such as int(text) and            *)
(* text[1:-1] are computed and not assumed.                                *)
(***************************************************************************)
EXTENDS Integers, Sequences, FiniteSets, TLC

VARIABLES
    tokens,     \* Parser.tokens: the token list being parsed
    i,          \* Parser.i: the cursor into tokens
    pc,         \* where the driver (run_test_case / evaluate) stands
    ast,        \* the node parse returned, or the node being evaluated
    variables,  \* Env.variables of the environment evaluated against
    envs,       \* the Env objects of a Gambl run, by identity
    heap,       \* the array objects of a Gambl run, by identity
    result,     \* the value or exception of the last parse / evaluate / get
    hist        \* history: what the operations so far did

vars == <<tokens, i, pc, ast, variables, envs, heap, result, hist>>

(***************************************************************************)
(* Bounds of the model.                                                    *)
(***************************************************************************)
MaxExprLen == 5
MaxStmtLen == 4
MaxInt == 30000
MaxIters == 6
MaxOps == 3

(***************************************************************************)
(* Tokens: (kind, text) pairs as the lexer yields them.                    *)
(***************************************************************************)
Tk(kind, text) == <<kind, text>>

EOFToken == <<"EOF", <<>>>>

T_plus == Tk("PLUS", <<"+">>)
T_minus == Tk("MINUS", <<"-">>)
T_mul == Tk("MUL", <<"*">>)
T_div == Tk("DIV", <<"/">>)
T_mod == Tk("MOD", <<"%">>)
T_pow == Tk("POW", <<"^">>)
T_lparen == Tk("LPAREN", <<"(">>)
T_rparen == Tk("RPAREN", <<")">>)
T_lbrack == Tk("LBRACK", <<"[">>)
T_rbrack == Tk("RBRACK", <<"]">>)
T_comma == Tk("COMMA", <<",">>)
T_colon == Tk("COLON", <<":">>)
T_semi == Tk("SEMICOLON", <<";">>)
T_assign == Tk("ASSIGN", <<"=">>)
T_eq == Tk("EQ", <<"=", "=">>)
T_lt == Tk("LT", <<"<">>)
T_gt == Tk("GT", <<">">>)
T_le == Tk("LE", <<"<", "=">>)
T_ge == Tk("GE", <<">", "=">>)
T_and == Tk("AND", <<"a", "n", "d">>)
T_or == Tk("OR", <<"o", "r">>)
T_not == Tk("NOT", <<"n", "o", "t">>)
T_ref == Tk("REF", <<"r", "e", "f">>)
T_if == Tk("IF", <<"i", "f">>)
T_then == Tk("THEN", <<"t", "h", "e", "n">>)
T_else == Tk("ELSE", <<"e", "l", "s", "e">>)
T_while == Tk("WHILE", <<"w", "h", "i", "l", "e">>)
T_def == Tk("DEF", <<"d", "e", "f">>)
T_return == Tk("RETURN", <<"r", "e", "t", "u", "r", "n">>)

Num(text) == Tk("NUM", text)
Id(text) == Tk("ID", text)
Str(text) == Tk("STRING", <<"\"">> \o text \o <<"\"">>)

(***************************************************************************)
(* lexer.py: SPEC, MASTER and lex.  A source text is a sequence of         *)
(* characters; offsets count from 0 as in Python.  Each pattern of SPEC is *)
(* an operator giving the length of its match at offset p, 0 for no match. *)
(***************************************************************************)
LowerCase == {"a", "b", "c", "d", "e", "f", "g", "h", "i", "j", "k", "l", "m",
              "n", "o", "p", "q", "r", "s", "t", "u", "v", "w", "x", "y", "z"}
UpperCase == {"A", "B", "C", "D", "E", "F", "G", "H", "I", "J", "K", "L", "M",
              "N", "O", "P", "Q", "R", "S", "T", "U", "V", "W", "X", "Y", "Z"}
DigitChars == {"0", "1", "2", "3", "4", "5", "6", "7", "8", "9"}
\* [A-Za-z_] and \w
IdStart == LowerCase \cup UpperCase \cup {"_"}
WordChars == IdStart \cup DigitChars
\* [ \t\r\n]
Blank == {" ", "\t", "\r", "\n"}

\* The length of the longest run of characters of S at offset p (a greedy S*).
RunLen(src, p, S) ==
    CHOOSE n \in 0..(Len(src) - p) :
        /\ \A k \in 1..n : src[p + k] \in S
        /\ p + n < Len(src) => src[p + n + 1] \notin S

\* \d+(\.\d+)?
match_NUM(src, p) ==
    LET n == RunLen(src, p, DigitChars)
    IN  IF n = 0 THEN 0
        ELSE IF p + n < Len(src) /\ src[p + n + 1] = "."
                  /\ RunLen(src, p + n + 1, DigitChars) > 0
        THEN n + 1 + RunLen(src, p + n + 1, DigitChars)
        ELSE n

RECURSIVE string_body(_, _)
\* ([^"\\]|\\.)*" from offset q: the offset after the closing quote, 0 when
\* the text ends (or a backslash meets a newline or the end) before it.
string_body(src, q) ==
    IF q >= Len(src) THEN 0
    ELSE IF src[q + 1] = "\"" THEN q + 1
    ELSE IF src[q + 1] = "\\"
    THEN IF q + 1 < Len(src) /\ src[q + 2] # "\n" THEN string_body(src, q + 2) ELSE 0
    ELSE string_body(src, q + 1)

\* \"([^\"\\]|\\.)*\"
match_STRING(src, p) ==
    IF src[p + 1] = "\"" /\ string_body(src, p + 1) > 0
    THEN string_body(src, p + 1) - p
    ELSE 0

\* A literal pattern such as == or \+
match_literal(src, p, lit) ==
    IF p + Len(lit) <= Len(src) /\ SubSeq(src, p + 1, p + Len(lit)) = lit
    THEN Len(lit) ELSE 0

\* Mutant: a keyword pattern without its \b.
match_keyword_prefix(src, p, word) == match_literal(src, p, word)

\* A keyword pattern such as if\b: the word, not followed by a word character.
match_keyword(src, p, word) ==
    IF /\ match_literal(src, p, word) > 0
       /\ p + Len(word) < Len(src) => src[p + Len(word) + 1] \notin WordChars
    THEN Len(word) ELSE 0

\* [A-Za-z_]\w*
match_ID(src, p) ==
    IF src[p + 1] \in IdStart THEN 1 + RunLen(src, p + 1, WordChars) ELSE 0

\* [ \t\r\n]+
match_WS(src, p) == RunLen(src, p, Blank)

\* #.*
match_COMMENT(src, p) ==
    IF src[p + 1] = "#"
    THEN 1 + (CHOOSE n \in 0..(Len(src) - p - 1) :
                 /\ \A k \in 1..n : src[p + 1 + k] # "\n"
                 /\ p + 1 + n < Len(src) => src[p + 2 + n] = "\n")
    ELSE 0

\* .
match_MISMATCH(src, p) == IF src[p + 1] # "\n" THEN 1 ELSE 0

\* The token specification, in its order.
SPEC == <<"NUM", "STRING", "EQ", "LE", "GE", "LT", "GT", "AND", "OR", "NOT", "REF",
          "IF", "THEN", "ELSE", "WHILE", "DEF", "RETURN", "ID", "ASSIGN", "PLUS",
          "MINUS", "MUL", "DIV", "MOD", "POW", "LBRACK", "RBRACK", "LPAREN", "RPAREN",
          "COMMA", "COLON", "SEMICOLON", "WS", "COMMENT", "MISMATCH">>

\* The length of the match of the pattern named kind at offset p.
match_kind(src, p, kind) ==
    CASE kind = "NUM" -> match_NUM(src, p)
      [] kind = "STRING" -> match_STRING(src, p)
      [] kind = "EQ" -> match_literal(src, p, T_eq[2])
      [] kind = "LE" -> match_literal(src, p, T_le[2])
      [] kind = "GE" -> match_literal(src, p, T_ge[2])
      [] kind = "LT" -> match_literal(src, p, T_lt[2])
      [] kind = "GT" -> match_literal(src, p, T_gt[2])
      [] kind = "AND" -> match_keyword(src, p, T_and[2])
      [] kind = "OR" -> match_keyword(src, p, T_or[2])
      [] kind = "NOT" -> match_keyword(src, p, T_not[2])
      [] kind = "REF" -> match_keyword(src, p, T_ref[2])
      [] kind = "IF" -> match_keyword(src, p, T_if[2])
      [] kind = "THEN" -> match_keyword(src, p, T_then[2])
      [] kind = "ELSE" -> match_keyword(src, p, T_else[2])
      [] kind = "WHILE" -> match_keyword(src, p, T_while[2])
      [] kind = "DEF" -> match_keyword(src, p, T_def[2])
      [] kind = "RETURN" -> match_keyword(src, p, T_return[2])
      [] kind = "ID" -> match_ID(src, p)
      [] kind = "ASSIGN" -> match_literal(src, p, T_assign[2])
      [] kind = "PLUS" -> match_literal(src, p, T_plus[2])
      [] kind = "MINUS" -> match_literal(src, p, T_minus[2])
      [] kind = "MUL" -> match_literal(src, p, T_mul[2])
      [] kind = "DIV" -> match_literal(src, p, T_div[2])
      [] kind = "MOD" -> match_literal(src, p, T_mod[2])
      [] kind = "POW" -> match_literal(src, p, T_pow[2])
      [] kind = "LBRACK" -> match_literal(src, p, T_lbrack[2])
      [] kind = "RBRACK" -> match_literal(src, p, T_rbrack[2])
      [] kind = "LPAREN" -> match_literal(src, p, T_lparen[2])
      [] kind = "RPAREN" -> match_literal(src, p, T_rparen[2])
      [] kind = "COMMA" -> match_literal(src, p, T_comma[2])
      [] kind = "COLON" -> match_literal(src, p, T_colon[2])
      [] kind = "SEMICOLON" -> match_literal(src, p, T_semi[2])
      [] kind = "WS" -> match_WS(src, p)
      [] kind = "COMMENT" -> match_COMMENT(src, p)
      [] kind = "MISMATCH" -> match_MISMATCH(src, p)

\* MASTER at offset p: the first alternative of SPEC that matches there (an
\* alternation takes its alternatives in order, not the longest); 0 if none.
MASTER(src, p) ==
    LET hits == {n \in 1..Len(SPEC) : match_kind(src, p, SPEC[n]) > 0}
    IN  IF hits = {} THEN [kind |-> "none", len |-> 0]
        ELSE LET n == CHOOSE h \in hits : \A g \in hits : h <= g
             IN  [kind |-> SPEC[n], len |-> match_kind(src, p, SPEC[n])]

LexOk(toks, starts) ==
    [ok |-> TRUE, tokens |-> toks, starts |-> starts, exc |-> "none", char |-> "",
     index |-> 0]

\* ValueError(f"Unexpected character: {text!r} at index {m.start()}")
LexError(toks, starts, text, index) ==
    [ok |-> FALSE, tokens |-> toks, starts |-> starts, exc |-> "ValueError",
     char |-> text, index |-> index]

RECURSIVE lex_loop(_, _, _, _)
\* Mutant: a MISMATCH match is skipped like whitespace.
lex_loop_skip_mismatch(src, p, toks, starts) ==
    IF p >= Len(src) THEN LexOk(toks, starts)
    ELSE LET m == MASTER(src, p)
         IN  IF m.kind = "none" THEN lex_loop(src, p + 1, toks, starts)
             ELSE IF m.kind \in {"WS", "COMMENT", "MISMATCH"}
             THEN lex_loop(src, p + m.len, toks, starts)
             ELSE lex_loop(src, p + m.len,
                           Append(toks, Tk(m.kind, SubSeq(src, p + 1, p + m.len))),
                           Append(starts, p))

\* for m in MASTER.finditer(src): the matches from offset p on, one after
\* the other; toks are the tokens yielded so far, starts their m.start().
lex_loop(src, p, toks, starts) ==
    IF p >= Len(src) THEN LexOk(toks, starts)
    ELSE LET m == MASTER(src, p)
         IN  IF m.kind = "none" THEN lex_loop(src, p + 1, toks, starts)
             ELSE IF m.kind \in {"WS", "COMMENT"}
             THEN lex_loop(src, p + m.len, toks, starts)
             ELSE IF m.kind = "MISMATCH"
             THEN LexError(toks, starts, SubSeq(src, p + 1, p + m.len)[1], p)
             ELSE lex_loop(src, p + m.len,
                           Append(toks, Tk(m.kind, SubSeq(src, p + 1, p + m.len))),
                           Append(starts, p))

\* list(lex(src))
lex(src) == lex_loop(src, 0, <<>>, <<>>)

(***************************************************************************)
(* AST nodes.  NoneNode stands for Python's None (an absent branch, "no    *)
(* value").                                                                *)
(***************************************************************************)
NoneNode == [kind |-> "None"]

Digits == {"0", "1", "2", "3", "4", "5", "6", "7", "8", "9"}

DigitVal(c) ==
    CASE c = "0" -> 0 [] c = "1" -> 1 [] c = "2" -> 2 [] c = "3" -> 3
      [] c = "4" -> 4 [] c = "5" -> 5 [] c = "6" -> 6 [] c = "7" -> 7
      [] c = "8" -> 8 [] c = "9" -> 9

\* int(value) accepts a non-empty run of decimal digits and raises ValueError
\* on anything else (for instance the "1.5" the lexer's NUM pattern admits).
IsIntText(text) == Len(text) > 0 /\ \A k \in 1..Len(text) : text[k] \in Digits

RECURSIVE IntOf(_)
IntOf(text) ==
    IF text = <<>> THEN 0
    ELSE IntOf(SubSeq(text, 1, Len(text) - 1)) * 10 + DigitVal(text[Len(text)])

Number(v) == [kind |-> "Number", value |-> v]
Variable(name) == [kind |-> "Variable", name |-> name]
BinOp(left, op, right) == [kind |-> "BinOp", left |-> left, op |-> op, right |-> right]
UnaryOp(op, operand) == [kind |-> "UnaryOp", op |-> op, operand |-> operand]
Assignment(name, value) == [kind |-> "Assignment", name |-> name, value |-> value]
If(condition, then_branch, else_branch) ==
    [kind |-> "If", condition |-> condition, then_branch |-> then_branch,
     else_branch |-> else_branch]
While(condition, body) == [kind |-> "While", condition |-> condition, body |-> body]
FunctionDef(name, params, statements) ==
    [kind |-> "FunctionDef", name |-> name, params |-> params, statements |-> statements]
Call(name, args) == [kind |-> "Call", name |-> name, args |-> args]
ReturnValue(value) == [kind |-> "ReturnValue", value |-> value]
Block(statements) == [kind |-> "Block", statements |-> statements]
String(value) == [kind |-> "String", value |-> value]
ArrayLiteral(items) == [kind |-> "ArrayLiteral", items |-> items]
Index(base, index) == [kind |-> "Index", base |-> base, index |-> index]
AssignIndex(base, index, expr) ==
    [kind |-> "AssignIndex", base |-> base, index |-> index, expr |-> expr]

(***************************************************************************)
(* Parser cursor primitives.  A parse step returns a record: ok, the node  *)
(* (or token) produced, the cursor after it and, on failure, the exception *)
(* raised with the expected and the found token.                           *)
(***************************************************************************)
\* The cursor k counts consumed tokens (Python's 0-based self.i); the token it
\* designates is the (k+1)-th element of the sequence.
at_eof(toks, k) == k >= Len(toks)

current(toks, k) == IF ~at_eof(toks, k) THEN toks[k + 1] ELSE EOFToken

peek_kind(toks, k) == current(toks, k)[1]

peek_val(toks, k) == current(toks, k)[2]

\* Mutant: the cursor moves on even at the end of the tokens.
advance_unguarded(toks, k) == k + 1

advance(toks, k) == IF ~at_eof(toks, k) THEN k + 1 ELSE k

Ok(node, k) == [ok |-> TRUE, node |-> node, i |-> k, exc |-> "none",
                expected |-> <<>>, got |-> EOFToken]

Raise(type, expected, toks, k) ==
    [ok |-> FALSE, node |-> NoneNode, i |-> k, exc |-> type,
     expected |-> expected, got |-> current(toks, k)]

\* Re-raise the failure r of a sub-parse unchanged.
Propagate(r) == [r EXCEPT !.node = NoneNode]

eat_kind(toks, k, name) ==
    IF peek_kind(toks, k) = name
    THEN Ok(current(toks, k), advance(toks, k))
    ELSE Raise("SyntaxError", <<name>>, toks, k)

eat_val(toks, k, pat) ==
    IF peek_val(toks, k) = pat
    THEN Ok(current(toks, k), advance(toks, k))
    ELSE Raise("SyntaxError", pat, toks, k)

(***************************************************************************)
(* The recursive-descent productions of Parser.py.                         *)
(***************************************************************************)
\* descend(rule, toks, k, arg) applies the production or loop named `rule` at
\* cursor k (arg: what a loop has accumulated so far); it is how one production
\* calls another.
RECURSIVE descend(_, _, _, _)

\* while peek_kind() == "COMMA": eat it, parse an expression, append it.
expr_list_loop(toks, k, items) ==
    IF peek_kind(toks, k) = "COMMA"
    THEN LET r == descend("parse_expr", toks, advance(toks, k), <<>>)
         IN  IF ~r.ok THEN Propagate(r)
             ELSE descend("expr_list_loop", toks, r.i, Append(items, r.node))
    ELSE Ok(items, k)

\* The comma-separated expressions up to the closing token `close`, which is
\* consumed: the items of an array literal, the arguments of a call.
parse_items(toks, k, close) ==
    LET r == IF peek_kind(toks, k) # close
             THEN LET first == descend("parse_expr", toks, k, <<>>)
                  IN  IF ~first.ok THEN Propagate(first)
                      ELSE descend("expr_list_loop", toks, first.i, <<first.node>>)
             ELSE Ok(<<>>, k)
    IN  IF ~r.ok THEN r
        ELSE LET e == eat_kind(toks, r.i, close)
             IN  IF ~e.ok THEN Propagate(e) ELSE Ok(r.node, e.i)

\* Mutant: a string literal keeps its quotes.
parse_factor_keep_quotes(toks, k) ==
    CASE peek_kind(toks, k) = "NUM" ->
           LET text == peek_val(toks, k)
           IN  IF IsIntText(text)
               THEN Ok(Number(IntOf(text)), advance(toks, k))
               ELSE Raise("ValueError", text, toks, advance(toks, k))
      [] peek_kind(toks, k) = "STRING" ->
           LET text == peek_val(toks, k)
           IN  Ok(String(text), advance(toks, k))
      [] peek_kind(toks, k) = "LBRACK" ->
           LET r == descend("parse_items", toks, advance(toks, k), "RBRACK")
           IN  IF ~r.ok THEN r ELSE Ok(ArrayLiteral(r.node), r.i)
      [] peek_kind(toks, k) = "ID" ->
           IF ~at_eof(toks, k) /\ k + 1 < Len(toks) /\ toks[k + 2][1] = "LPAREN"
           THEN LET name == peek_val(toks, k)
                    r == descend("parse_items", toks, advance(toks, advance(toks, k)), "RPAREN")
                IN  IF ~r.ok THEN r ELSE Ok(Call(name, r.node), r.i)
           ELSE Ok(Variable(peek_val(toks, k)), advance(toks, k))
      [] peek_kind(toks, k) = "LPAREN" ->
           LET r == descend("parse_expr", toks, advance(toks, k), <<>>)
           IN  IF ~r.ok THEN Propagate(r)
               ELSE LET e == eat_kind(toks, r.i, "RPAREN")
                    IN  IF ~e.ok THEN Propagate(e) ELSE Ok(r.node, e.i)
      [] OTHER -> Raise("SyntaxError", <<"factor">>, toks, k)

parse_factor(toks, k) ==
    CASE peek_kind(toks, k) = "NUM" ->
           LET text == peek_val(toks, k)
           IN  IF IsIntText(text)
               THEN Ok(Number(IntOf(text)), advance(toks, k))
               ELSE Raise("ValueError", text, toks, advance(toks, k))
      [] peek_kind(toks, k) = "STRING" ->
           LET text == peek_val(toks, k)
           IN  Ok(String(SubSeq(text, 2, Len(text) - 1)), advance(toks, k))
      [] peek_kind(toks, k) = "LBRACK" ->
           LET r == descend("parse_items", toks, advance(toks, k), "RBRACK")
           IN  IF ~r.ok THEN r ELSE Ok(ArrayLiteral(r.node), r.i)
      [] peek_kind(toks, k) = "ID" ->
           IF ~at_eof(toks, k) /\ k + 1 < Len(toks) /\ toks[k + 2][1] = "LPAREN"
           THEN LET name == peek_val(toks, k)
                    r == descend("parse_items", toks, advance(toks, advance(toks, k)), "RPAREN")
                IN  IF ~r.ok THEN r ELSE Ok(Call(name, r.node), r.i)
           ELSE Ok(Variable(peek_val(toks, k)), advance(toks, k))
      [] peek_kind(toks, k) = "LPAREN" ->
           LET r == descend("parse_expr", toks, advance(toks, k), <<>>)
           IN  IF ~r.ok THEN Propagate(r)
               ELSE LET e == eat_kind(toks, r.i, "RPAREN")
                    IN  IF ~e.ok THEN Propagate(e) ELSE Ok(r.node, e.i)
      [] OTHER -> Raise("SyntaxError", <<"factor">>, toks, k)

\* while peek_kind() == "LBRACK": node = Index(node, expr)
index_loop(toks, k, node) ==
    IF peek_kind(toks, k) = "LBRACK"
    THEN LET r == descend("parse_expr", toks, advance(toks, k), <<>>)
         IN  IF ~r.ok THEN Propagate(r)
             ELSE LET e == eat_kind(toks, r.i, "RBRACK")
                  IN  IF ~e.ok THEN Propagate(e)
                      ELSE descend("index_loop", toks, e.i, Index(node, r.node))
    ELSE Ok(node, k)

\* Mutant: the right operand of "^" is a single factor, not a power.
parse_power_rhs_factor(toks, k) ==
    LET f == descend("parse_factor", toks, k, <<>>)
    IN  IF ~f.ok THEN Propagate(f)
        ELSE LET n == descend("index_loop", toks, f.i, f.node)
             IN  IF ~n.ok THEN n
                 ELSE IF peek_val(toks, n.i) = <<"^">>
                      THEN LET right == descend("parse_factor", toks, advance(toks, n.i), <<>>)
                           IN  IF ~right.ok THEN Propagate(right)
                               ELSE Ok(BinOp(n.node, <<"^">>, right.node), right.i)
                      ELSE n

parse_power(toks, k) ==
    LET f == descend("parse_factor", toks, k, <<>>)
    IN  IF ~f.ok THEN Propagate(f)
        ELSE LET n == descend("index_loop", toks, f.i, f.node)
             IN  IF ~n.ok THEN n
                 ELSE IF peek_val(toks, n.i) = <<"^">>
                      THEN LET right == descend("parse_power", toks, advance(toks, n.i), <<>>)
                           IN  IF ~right.ok THEN Propagate(right)
                               ELSE Ok(BinOp(n.node, <<"^">>, right.node), right.i)
                      ELSE n

term_loop(toks, k, node) ==
    IF peek_val(toks, k) \in {<<"*">>, <<"/">>, <<"%">>}
    THEN LET right == descend("parse_power", toks, advance(toks, k), <<>>)
         IN  IF ~right.ok THEN Propagate(right)
             ELSE descend("term_loop", toks, right.i, BinOp(node, peek_val(toks, k), right.node))
    ELSE Ok(node, k)

parse_term(toks, k) ==
    LET n == descend("parse_power", toks, k, <<>>)
    IN  IF ~n.ok THEN Propagate(n) ELSE descend("term_loop", toks, n.i, n.node)

expr_loop(toks, k, node) ==
    IF peek_val(toks, k) \in {<<"+">>, <<"-">>}
    THEN LET right == descend("parse_term", toks, advance(toks, k), <<>>)
         IN  IF ~right.ok THEN Propagate(right)
             ELSE descend("expr_loop", toks, right.i, BinOp(node, peek_val(toks, k), right.node))
    ELSE Ok(node, k)

parse_expr(toks, k) ==
    LET n == descend("parse_term", toks, k, <<>>)
    IN  IF ~n.ok THEN Propagate(n) ELSE descend("expr_loop", toks, n.i, n.node)

comparison_loop(toks, k, node) ==
    IF peek_kind(toks, k) \in {"LT", "GT", "LE", "GE"}
    THEN LET right == descend("parse_expr", toks, advance(toks, k), <<>>)
         IN  IF ~right.ok THEN Propagate(right)
             ELSE descend("comparison_loop", toks, right.i,
                                  BinOp(node, peek_val(toks, k), right.node))
    ELSE Ok(node, k)

parse_comparison(toks, k) ==
    LET n == descend("parse_expr", toks, k, <<>>)
    IN  IF ~n.ok THEN Propagate(n) ELSE descend("comparison_loop", toks, n.i, n.node)

equality_loop(toks, k, node) ==
    IF peek_kind(toks, k) = "EQ"
    THEN LET right == descend("parse_comparison", toks, advance(toks, k), <<>>)
         IN  IF ~right.ok THEN Propagate(right)
             ELSE descend("equality_loop", toks, right.i,
                                BinOp(node, peek_val(toks, k), right.node))
    ELSE Ok(node, k)

parse_equality(toks, k) ==
    LET n == descend("parse_comparison", toks, k, <<>>)
    IN  IF ~n.ok THEN Propagate(n) ELSE descend("equality_loop", toks, n.i, n.node)

and_loop(toks, k, node) ==
    IF peek_kind(toks, k) = "AND"
    THEN LET right == descend("parse_equality", toks, advance(toks, k), <<>>)
         IN  IF ~right.ok THEN Propagate(right)
             ELSE descend("and_loop", toks, right.i, BinOp(node, peek_val(toks, k), right.node))
    ELSE Ok(node, k)

parse_and(toks, k) ==
    LET n == descend("parse_equality", toks, k, <<>>)
    IN  IF ~n.ok THEN Propagate(n) ELSE descend("and_loop", toks, n.i, n.node)

or_loop(toks, k, node) ==
    IF peek_kind(toks, k) = "OR"
    THEN LET right == descend("parse_and", toks, advance(toks, k), <<>>)
         IN  IF ~right.ok THEN Propagate(right)
             ELSE descend("or_loop", toks, right.i, BinOp(node, peek_val(toks, k), right.node))
    ELSE Ok(node, k)

parse_or(toks, k) ==
    LET n == descend("parse_and", toks, k, <<>>)
    IN  IF ~n.ok THEN Propagate(n) ELSE descend("or_loop", toks, n.i, n.node)

parse_if(toks, k) ==
    IF peek_kind(toks, k) = "IF"
    THEN LET c == descend("parse_or", toks, advance(toks, k), <<>>)
         IN  IF ~c.ok THEN Propagate(c)
             ELSE LET t == IF peek_kind(toks, c.i) = "THEN"
                           THEN descend("parse_statement", toks, advance(toks, c.i), <<>>)
                           ELSE Ok(NoneNode, c.i)
                  IN  IF ~t.ok THEN Propagate(t)
                      ELSE LET e == IF peek_kind(toks, t.i) = "ELSE"
                                    THEN descend("parse_statement", toks, advance(toks, t.i), <<>>)
                                    ELSE Ok(NoneNode, t.i)
                           IN  IF ~e.ok THEN Propagate(e)
                               ELSE Ok(If(c.node, t.node, e.node), e.i)
    ELSE descend("parse_or", toks, k, <<>>)

\* Mutant: no index-assignment branch, a[expr] = value is left to parse_if.
parse_assignment_name_only(toks, k) ==
    IF /\ peek_kind(toks, k) = "ID"
       /\ ~at_eof(toks, k)
       /\ k + 1 < Len(toks)
       /\ toks[k + 2][1] = "ASSIGN"
    THEN LET name == peek_val(toks, k)
             value == descend("parse_while", toks, advance(toks, advance(toks, k)), <<>>)
         IN  IF ~value.ok THEN Propagate(value)
             ELSE Ok(Assignment(name, value.node), value.i)
    ELSE descend("parse_if", toks, k, <<>>)

parse_assignment(toks, k) ==
    IF /\ peek_kind(toks, k) = "ID"
       /\ ~at_eof(toks, k)
       /\ k + 1 < Len(toks)
       /\ toks[k + 2][1] = "ASSIGN"
    THEN LET name == peek_val(toks, k)
             value == descend("parse_while", toks, advance(toks, advance(toks, k)), <<>>)
         IN  IF ~value.ok THEN Propagate(value)
             ELSE Ok(Assignment(name, value.node), value.i)
    ELSE IF /\ peek_kind(toks, k) = "ID"
            /\ ~at_eof(toks, k)
            /\ k + 1 < Len(toks)
            /\ toks[k + 2][1] = "LBRACK"
    THEN LET lhs == descend("parse_expr", toks, k, <<>>)
         IN  IF ~lhs.ok THEN Propagate(lhs)
             ELSE IF peek_kind(toks, lhs.i) = "ASSIGN"
                  THEN LET expr == descend("parse_while", toks, advance(toks, lhs.i), <<>>)
                       IN  IF ~expr.ok THEN Propagate(expr)
                           ELSE IF lhs.node.kind = "Index"
                                THEN Ok(AssignIndex(lhs.node.base, lhs.node.index,
                                                    expr.node), expr.i)
                                ELSE Raise("SyntaxError", <<"assignment target">>,
                                           toks, expr.i)
                  ELSE lhs
    ELSE descend("parse_if", toks, k, <<>>)

parse_while(toks, k) ==
    IF peek_kind(toks, k) = "WHILE"
    THEN LET c == descend("parse_comparison", toks, advance(toks, k), <<>>)
         IN  IF ~c.ok THEN Propagate(c)
             ELSE LET colon == eat_kind(toks, c.i, "COLON")
                  IN  IF ~colon.ok THEN Propagate(colon)
                      ELSE LET body == descend("parse_statement", toks, colon.i, <<>>)
                           IN  IF ~body.ok THEN Propagate(body)
                               ELSE Ok(While(c.node, body.node), body.i)
    ELSE descend("parse_assignment", toks, k, <<>>)

\* Mutant: `return E` is parsed to the tree of E, without the ReturnValue node.
parse_return_bare(toks, k) ==
    IF peek_kind(toks, k) = "RETURN"
    THEN descend("parse_or", toks, advance(toks, k), <<>>)
    ELSE descend("parse_while", toks, k, <<>>)

parse_return(toks, k) ==
    IF peek_kind(toks, k) = "RETURN"
    THEN LET value == descend("parse_or", toks, advance(toks, k), <<>>)
         IN  IF ~value.ok THEN Propagate(value)
             ELSE Ok(ReturnValue(value.node), value.i)
    ELSE descend("parse_while", toks, k, <<>>)

\* Mutant: the `ref` keyword is consumed but not recorded.
params_loop_no_ref(toks, k, params) ==
    IF peek_val(toks, k) # <<")">>
    THEN LET is_ref == peek_kind(toks, k) = "REF"
             k1 == IF is_ref THEN advance(toks, k) ELSE k
             p == eat_kind(toks, k1, "ID")
         IN  IF ~p.ok THEN Propagate(p)
             ELSE IF peek_val(toks, p.i) = <<",">>
                  THEN descend("params_loop", toks, advance(toks, p.i),
                                   Append(params, <<FALSE, p.node[2]>>))
                  ELSE Ok(Append(params, <<FALSE, p.node[2]>>), p.i)
    ELSE Ok(params, k)

\* Mutant: each parameter replaces the list instead of being appended to it.
params_loop_last_only(toks, k, params) ==
    IF peek_val(toks, k) # <<")">>
    THEN LET is_ref == peek_kind(toks, k) = "REF"
             k1 == IF is_ref THEN advance(toks, k) ELSE k
             p == eat_kind(toks, k1, "ID")
         IN  IF ~p.ok THEN Propagate(p)
             ELSE IF peek_val(toks, p.i) = <<",">>
                  THEN descend("params_loop", toks, advance(toks, p.i),
                                   <<<<is_ref, p.node[2]>>>>)
                  ELSE Ok(<<<<is_ref, p.node[2]>>>>, p.i)
    ELSE Ok(params, k)

\* while peek_val() != ")": [ref] ID, then "," to go on or anything else to stop.
params_loop(toks, k, params) ==
    IF peek_val(toks, k) # <<")">>
    THEN LET is_ref == peek_kind(toks, k) = "REF"
             k1 == IF is_ref THEN advance(toks, k) ELSE k
             p == eat_kind(toks, k1, "ID")
         IN  IF ~p.ok THEN Propagate(p)
             ELSE IF peek_val(toks, p.i) = <<",">>
                  THEN descend("params_loop", toks, advance(toks, p.i),
                                   Append(params, <<is_ref, p.node[2]>>))
                  ELSE Ok(Append(params, <<is_ref, p.node[2]>>), p.i)
    ELSE Ok(params, k)

\* One body statement: parse_return on RETURN, parse_assignment otherwise.
body_statement(toks, k) ==
    IF peek_kind(toks, k) = "RETURN" THEN descend("parse_return", toks, k, <<>>)
    ELSE descend("parse_assignment", toks, k, <<>>)

\* Mutant: the body goes on after every ";", whatever follows it.
body_loop_to_end(toks, k, statements) ==
    IF peek_val(toks, k) = <<";">> /\ k + 1 < Len(toks)
    THEN LET st == descend("body_statement", toks, advance(toks, k), <<>>)
         IN  IF ~st.ok THEN Propagate(st)
             ELSE descend("body_loop", toks, st.i, Append(statements, st.node))
    ELSE Ok(statements, k)

\* while peek_val() == ";": stop before a `def` or an `ID (`, else consume the
\* ";" and append the next body statement.
body_loop(toks, k, statements) ==
    IF peek_val(toks, k) = <<";">>
    THEN LET next_pos == k + 1
         IN  IF next_pos < Len(toks)
             THEN IF toks[next_pos + 1][1] = "DEF"
                  THEN Ok(statements, k)
                  ELSE IF /\ toks[next_pos + 1][1] = "ID"
                          /\ next_pos + 1 < Len(toks)
                          /\ toks[next_pos + 2][2] = <<"(">>
                  THEN Ok(statements, k)
                  ELSE LET k1 == advance(toks, k)
                       IN  IF ~at_eof(toks, k1) /\ peek_kind(toks, k1) # "EOF"
                           THEN LET st == descend("body_statement", toks, k1, <<>>)
                                IN  IF ~st.ok THEN Propagate(st)
                                    ELSE descend("body_loop", toks, st.i,
                                                   Append(statements, st.node))
                           ELSE Ok(statements, k1)
             ELSE Ok(statements, k)
    ELSE Ok(statements, k)

parse_function_def(toks, k) ==
    IF peek_kind(toks, k) = "DEF"
    THEN LET name == eat_kind(toks, advance(toks, k), "ID")
         IN  IF ~name.ok THEN Propagate(name)
             ELSE LET open == eat_val(toks, name.i, <<"(">>)
                  IN  IF ~open.ok THEN Propagate(open)
                  ELSE LET params == descend("params_loop", toks, open.i, <<>>)
                  IN  IF ~params.ok THEN params
                  ELSE LET close == eat_val(toks, params.i, <<")">>)
                  IN  IF ~close.ok THEN Propagate(close)
                  ELSE LET colon == eat_kind(toks, close.i, "COLON")
                  IN  IF ~colon.ok THEN Propagate(colon)
                  ELSE LET first == descend("body_statement", toks, colon.i, <<>>)
                  IN  IF ~first.ok THEN Propagate(first)
                  ELSE LET body == descend("body_loop", toks, first.i, <<first.node>>)
                  IN  IF ~body.ok THEN body
                      ELSE Ok(FunctionDef(name.node[2], params.node, body.node),
                              body.i)
    ELSE descend("parse_return", toks, k, <<>>)

parse_statement(toks, k) ==
    CASE peek_kind(toks, k) = "DEF" -> descend("parse_function_def", toks, k, <<>>)
      [] peek_kind(toks, k) = "RETURN" -> descend("parse_return", toks, k, <<>>)
      [] peek_kind(toks, k) = "WHILE" -> descend("parse_while", toks, k, <<>>)
      [] OTHER -> descend("parse_assignment", toks, k, <<>>)

\* The top-level loop of Parser.parse: a statement, then ";" to go on or
\* anything else to stop; the result is the single statement or a Block.
parse_loop(toks, k, statements) ==
    IF ~at_eof(toks, k)
    THEN LET tree == descend("parse_statement", toks, k, <<>>)
         IN  IF ~tree.ok THEN Propagate(tree)
             ELSE IF peek_val(toks, tree.i) = <<";">>
                  THEN descend("parse_loop", toks, advance(toks, tree.i),
                                  Append(statements, tree.node))
                  ELSE Ok(Append(statements, tree.node), tree.i)
    ELSE Ok(statements, k)

descend(rule, toks, k, arg) ==
    CASE rule = "parse_factor" -> parse_factor(toks, k)
      [] rule = "parse_items" -> parse_items(toks, k, arg)
      [] rule = "expr_list_loop" -> expr_list_loop(toks, k, arg)
      [] rule = "parse_power" -> parse_power(toks, k)
      [] rule = "index_loop" -> index_loop(toks, k, arg)
      [] rule = "parse_term" -> parse_term(toks, k)
      [] rule = "term_loop" -> term_loop(toks, k, arg)
      [] rule = "parse_expr" -> parse_expr(toks, k)
      [] rule = "expr_loop" -> expr_loop(toks, k, arg)
      [] rule = "parse_comparison" -> parse_comparison(toks, k)
      [] rule = "comparison_loop" -> comparison_loop(toks, k, arg)
      [] rule = "parse_equality" -> parse_equality(toks, k)
      [] rule = "equality_loop" -> equality_loop(toks, k, arg)
      [] rule = "parse_and" -> parse_and(toks, k)
      [] rule = "and_loop" -> and_loop(toks, k, arg)
      [] rule = "parse_or" -> parse_or(toks, k)
      [] rule = "or_loop" -> or_loop(toks, k, arg)
      [] rule = "parse_if" -> parse_if(toks, k)
      [] rule = "parse_assignment" -> parse_assignment(toks, k)
      [] rule = "parse_while" -> parse_while(toks, k)
      [] rule = "parse_return" -> parse_return(toks, k)
      [] rule = "params_loop" -> params_loop(toks, k, arg)
      [] rule = "body_statement" -> body_statement(toks, k)
      [] rule = "body_loop" -> body_loop(toks, k, arg)
      [] rule = "parse_function_def" -> parse_function_def(toks, k)
      [] rule = "parse_statement" -> parse_statement(toks, k)
      [] rule = "parse_loop" -> parse_loop(toks, k, arg)

\* Mutant: the statements are always wrapped in a Block.
parse_always_block(toks) ==
    LET r == descend("parse_loop", toks, 0, <<>>)
    IN  IF ~r.ok THEN r ELSE Ok(Block(r.node), r.i)

parse(toks) ==
    LET r == descend("parse_loop", toks, 0, <<>>)
    IN  IF ~r.ok THEN r
        ELSE IF Len(r.node) = 1 THEN Ok(r.node[1], r.i)
             ELSE Ok(Block(r.node), r.i)

(***************************************************************************)
(* Runtime values.  An array value is the identity of an array object in   *)
(* the heap; a Reference names an Env object and a variable in it.         *)
(***************************************************************************)
IntV(n) == [t |-> "int", v |-> n]
BoolV(b) == [t |-> "bool", v |-> b]
StrV(chars) == [t |-> "str", v |-> chars]
ListV(a) == [t |-> "list", a |-> a]
NoneV == [t |-> "None"]
FloatV == [t |-> "float"]
FunctionValue(params, statements, env) ==
    [t |-> "FunctionValue", params |-> params, body |-> statements, env |-> env]
BuiltinV(name) == [t |-> "builtin", name |-> name]
Reference(env, name) == [t |-> "Reference", env |-> env, name |-> name]

IsNum(v) == v.t \in {"int", "bool"}

AsInt(v) == IF v.t = "bool" THEN (IF v.v THEN 1 ELSE 0) ELSE v.v

\* Python truthiness of a value (h: the heap, for the length of an array).
Truthy(v, h) ==
    CASE v.t = "int" -> v.v # 0
      [] v.t = "bool" -> v.v
      [] v.t = "str" -> v.v # <<>>
      [] v.t = "list" -> h[v.a] # <<>>
      [] v.t = "None" -> FALSE
      [] OTHER -> TRUE

\* The outcome of an evaluation: a value and the state after it, or the
\* exception raised (with what its message names) and the state at the raise.
Val(v, s) == [exc |-> "none", v |-> v, s |-> s, info |-> <<>>]

Exc(type, info, s) == [exc |-> type, v |-> NoneV, s |-> s, info |-> info]

(***************************************************************************)
(* environment.py: Env and Reference.                                      *)
(***************************************************************************)
NewEnv == <<>>

Env_define(vs, name, value) ==
    [n \in (DOMAIN vs) \cup {name} |-> IF n = name THEN value ELSE vs[n]]

Env_get(vs, name) ==
    IF name \in DOMAIN vs THEN Val(vs[name], vs)
    ELSE Exc("NameError", <<"Undefined variable", name>>, vs)

\* Mutant: set on an unbound name is dropped instead of defining it.
Env_set_bound_only(vs, name, value) ==
    IF name \in DOMAIN vs THEN [vs EXCEPT ![name] = value] ELSE vs

Env_set(vs, name, value) ==
    IF name \in DOMAIN vs THEN [vs EXCEPT ![name] = value]
    ELSE Env_define(vs, name, value)

\* Mutant: the new Env starts without the variables.
Env_copy_empty(vs) == NewEnv

\* A new Env whose dict is a shallow copy: the same values under the same names.
Env_copy(vs) == [n \in DOMAIN vs |-> vs[n]]

Reference_get(ref, es) == Env_get(es[ref.env], ref.name)

\* Mutant: set stores the value on the Reference and not in its environment.
Reference_set_on_handle(ref, value, es) == es

Reference_set(ref, value, es) ==
    [es EXCEPT ![ref.env] = Env_set(es[ref.env], ref.name, value)]

(***************************************************************************)
(* Interpreter.py: evaluate(node, env) over Number, Variable, BinOp,       *)
(* While, If, UnaryOp and Assignment.                                      *)
(***************************************************************************)
\* Integer results are kept within MaxInt in magnitude; a longer one ends the
\* evaluation with the pseudo-exception "Unmodelled".
Bounded(n) == IF n > MaxInt \/ n < -MaxInt THEN [exc |-> "Unmodelled", v |-> NoneV, info |-> <<>>]
              ELSE [exc |-> "none", v |-> IntV(n), info |-> <<>>]

OpVal(v) == [exc |-> "none", v |-> v, info |-> <<>>]

OpExc(type, info) == [exc |-> type, v |-> NoneV, info |-> info]

\* Python's floor division and modulo (the result takes the divisor's sign).
PyFloorDiv(a, b) == IF b > 0 THEN a \div b ELSE (-a) \div (-b)

PyMod(a, b) == a - b * PyFloorDiv(a, b)

RECURSIVE PyPow(_, _)
PyPow(a, b) ==
    IF b = 0 THEN 1
    ELSE LET r == PyPow(a, b - 1)
         IN  IF r > MaxInt \/ r < -MaxInt THEN r ELSE r * a

\* left == right on values (arrays compare by content).
RECURSIVE PyEq(_, _, _)
PyEq(l, r, h) ==
    CASE IsNum(l) /\ IsNum(r) -> AsInt(l) = AsInt(r)
      [] l.t = "str" /\ r.t = "str" -> l.v = r.v
      [] l.t = "list" /\ r.t = "list" ->
           /\ Len(h[l.a]) = Len(h[r.a])
           /\ \A k \in 1..Len(h[l.a]) : PyEq(h[l.a][k], h[r.a][k], h)
      [] l.t = "None" /\ r.t = "None" -> TRUE
      [] OTHER -> l = r

\* The operator table of evaluate's BinOp branch, applied to two values.
binop(op, left, right, h) ==
    CASE op \in {<<"+">>, <<"-">>, <<"*">>} ->
           IF IsNum(left) /\ IsNum(right)
           THEN Bounded(CASE op = <<"+">> -> AsInt(left) + AsInt(right)
                          [] op = <<"-">> -> AsInt(left) - AsInt(right)
                          [] op = <<"*">> -> AsInt(left) * AsInt(right))
           ELSE IF op = <<"+">> /\ left.t = "str" /\ right.t = "str"
           THEN OpVal(StrV(left.v \o right.v))
           ELSE IF left.t \in {"list", "float"} \/ right.t \in {"list", "float"}
           THEN OpExc("Unmodelled", <<>>)
           ELSE OpExc("TypeError", <<"unsupported operand type(s)", left.t, right.t>>)
      [] op \in {<<"/">>, <<"%">>} ->
           IF IsNum(left) /\ IsNum(right)
           THEN IF AsInt(right) = 0
                THEN OpExc("ZeroDivisionError", <<>>)
                ELSE IF op = <<"/">>
                     THEN OpVal(IntV(PyFloorDiv(AsInt(left), AsInt(right))))
                     ELSE OpVal(IntV(PyMod(AsInt(left), AsInt(right))))
           ELSE IF left.t \in {"str", "float"} \/ right.t = "float"
           THEN OpExc("Unmodelled", <<>>)
           ELSE OpExc("TypeError", <<"unsupported operand type(s)", left.t, right.t>>)
      [] op = <<"^">> ->
           IF IsNum(left) /\ IsNum(right)
           THEN IF AsInt(right) < 0
                THEN IF AsInt(left) = 0 THEN OpExc("ZeroDivisionError", <<>>)
                     ELSE OpVal(FloatV)
                ELSE Bounded(PyPow(AsInt(left), AsInt(right)))
           ELSE IF left.t = "float" \/ right.t = "float"
           THEN OpExc("Unmodelled", <<>>)
           ELSE OpExc("TypeError", <<"unsupported operand type(s)", left.t, right.t>>)
      [] op = <<"=", "=">> -> OpVal(BoolV(PyEq(left, right, h)))
      [] op \in {<<"<">>, <<">">>} ->
           IF IsNum(left) /\ IsNum(right)
           THEN OpVal(BoolV(IF op = <<"<">> THEN AsInt(left) < AsInt(right)
                            ELSE AsInt(left) > AsInt(right)))
           ELSE IF \/ (left.t = right.t /\ left.t \in {"str", "list"})
                   \/ left.t = "float"
                   \/ right.t = "float"
           THEN OpExc("Unmodelled", <<>>)
           ELSE OpExc("TypeError", <<"not supported between", left.t, right.t>>)
      [] op = <<"a", "n", "d">> -> OpVal(IF Truthy(left, h) THEN right ELSE left)
      [] op = <<"o", "r">> -> OpVal(IF Truthy(left, h) THEN left ELSE right)
      [] OTHER -> OpExc("RuntimeError", <<"Unknown operator", op>>)

RECURSIVE evaluate(_, _), while_loop(_, _, _, _)

\* The While branch: result = None; loop: evaluate the condition, leave on a
\* falsy one, else result = evaluate(body).  n counts the iterations so far.
\* Mutant: the loop returns the first body evaluation instead of storing it.
while_loop_return_first(node, env, res, n) ==
    IF n >= MaxIters THEN Exc("Unmodelled", <<"iterations">>, env)
    ELSE LET condition == evaluate(node.condition, env)
         IN  IF condition.exc # "none" THEN condition
             ELSE IF ~Truthy(condition.v, <<>>) THEN Val(res, condition.s)
             ELSE evaluate(node.body, condition.s)

while_loop(node, env, res, n) ==
    IF n >= MaxIters THEN Exc("Unmodelled", <<"iterations">>, env)
    ELSE LET condition == evaluate(node.condition, env)
         IN  IF condition.exc # "none" THEN condition
             ELSE IF ~Truthy(condition.v, <<>>) THEN Val(res, condition.s)
             ELSE LET body == evaluate(node.body, condition.s)
                  IN  IF body.exc # "none" THEN body
                      ELSE while_loop(node, body.s, body.v, n + 1)

\* Mutant: `and` and `or` leave the right operand unevaluated when the left one
\* decides the result.
evaluate_short_circuit(node, env) ==
    CASE node.kind = "Number" -> Val(IntV(node.value), env)
      [] node.kind = "Variable" -> Env_get(env, node.name)
      [] node.kind = "BinOp" ->
           LET left == evaluate(node.left, env)
           IN  IF left.exc # "none" THEN left
               ELSE IF \/ node.op = <<"a", "n", "d">> /\ ~Truthy(left.v, <<>>)
                       \/ node.op = <<"o", "r">> /\ Truthy(left.v, <<>>)
               THEN left
               ELSE LET right == evaluate(node.right, left.s)
                    IN  IF right.exc # "none" THEN right
                        ELSE LET r == binop(node.op, left.v, right.v, <<>>)
                             IN  [exc |-> r.exc, v |-> r.v, s |-> right.s,
                                  info |-> r.info]
      [] node.kind = "While" -> while_loop(node, env, NoneV, 0)
      [] node.kind = "If" ->
           LET condition == evaluate(node.condition, env)
           IN  IF condition.exc # "none" THEN condition
               ELSE IF Truthy(condition.v, <<>>)
                    THEN IF node.then_branch # NoneNode
                         THEN evaluate(node.then_branch, condition.s)
                         ELSE Val(NoneV, condition.s)
                    ELSE IF node.else_branch # NoneNode
                         THEN evaluate(node.else_branch, condition.s)
                         ELSE Val(NoneV, condition.s)
      [] node.kind = "UnaryOp" ->
           LET operand == evaluate(node.operand, env)
           IN  IF operand.exc # "none" THEN operand
               ELSE IF node.op = <<"n", "o", "t">>
                    THEN Val(BoolV(~Truthy(operand.v, <<>>)), operand.s)
                    ELSE Exc("RuntimeError", <<"Unknown unary operator", node.op>>,
                             operand.s)
      [] node.kind = "Assignment" ->
           LET value == evaluate(node.value, env)
           IN  IF value.exc # "none" THEN value
               ELSE Val(NoneV, Env_set(value.s, node.name, value.v))
      [] OTHER -> Exc("RuntimeError", <<"Unknown AST node", node.kind>>, env)

evaluate(node, env) ==
    CASE node.kind = "Number" -> Val(IntV(node.value), env)
      [] node.kind = "Variable" -> Env_get(env, node.name)
      [] node.kind = "BinOp" ->
           LET left == evaluate(node.left, env)
           IN  IF left.exc # "none" THEN left
               ELSE LET right == evaluate(node.right, left.s)
                    IN  IF right.exc # "none" THEN right
                        ELSE LET r == binop(node.op, left.v, right.v, <<>>)
                             IN  [exc |-> r.exc, v |-> r.v, s |-> right.s,
                                  info |-> r.info]
      [] node.kind = "While" -> while_loop(node, env, NoneV, 0)
      [] node.kind = "If" ->
           LET condition == evaluate(node.condition, env)
           IN  IF condition.exc # "none" THEN condition
               ELSE IF Truthy(condition.v, <<>>)
                    THEN IF node.then_branch # NoneNode
                         THEN evaluate(node.then_branch, condition.s)
                         ELSE Val(NoneV, condition.s)
                    ELSE IF node.else_branch # NoneNode
                         THEN evaluate(node.else_branch, condition.s)
                         ELSE Val(NoneV, condition.s)
      [] node.kind = "UnaryOp" ->
           LET operand == evaluate(node.operand, env)
           IN  IF operand.exc # "none" THEN operand
               ELSE IF node.op = <<"n", "o", "t">>
                    THEN Val(BoolV(~Truthy(operand.v, <<>>)), operand.s)
                    ELSE Exc("RuntimeError", <<"Unknown unary operator", node.op>>,
                             operand.s)
      [] node.kind = "Assignment" ->
           LET value == evaluate(node.value, env)
           IN  IF value.exc # "none" THEN value
               ELSE Val(NoneV, Env_set(value.s, node.name, value.v))
      [] OTHER -> Exc("RuntimeError", <<"Unknown AST node", node.kind>>, env)

(***************************************************************************)
(* The Gambl evaluator (Gambl/interpreter.py, which main.py and the tests  *)
(* import): evaluate over every node kind, with function values,           *)
(* references, arrays and strings.  Its state st holds the Env objects     *)
(* (st.envs, an Env being named by its position), the array objects        *)
(* (st.heap) and the number of calls in progress (st.depth).               *)
(***************************************************************************)
MaxDepth == 6

\* run(rule, node, e, st, acc) applies the evaluation step named `rule` to
\* `node` in environment e; it is how one step calls another.
RECURSIVE run(_, _, _, _, _)

\* The built-in len of the test drivers.
gambl_len(x, h) ==
    IF x.t = "list" THEN OpVal(IntV(Len(h[x.a])))
    ELSE IF x.t = "str" THEN OpVal(IntV(Len(x.v)))
    ELSE OpExc("TypeError", <<"object of type", "int", "has no len()">>)

\* The operator table, with <= and >=.
g_binop(op, left, right, h) ==
    IF op \in {<<"<", "=">>, <<">", "=">>}
    THEN IF IsNum(left) /\ IsNum(right)
         THEN OpVal(BoolV(IF op = <<"<", "=">> THEN AsInt(left) <= AsInt(right)
                          ELSE AsInt(left) >= AsInt(right)))
         ELSE IF left.t = right.t /\ left.t \in {"str", "list"}
         THEN OpExc("Unmodelled", <<>>)
         ELSE OpExc("TypeError", <<"not supported between", left.t, right.t>>)
    ELSE binop(op, left, right, h)

\* A read through a name: a Reference bound to it is dereferenced.
g_lookup(name, e, st) ==
    LET g == Env_get(st.envs[e], name)
    IN  IF g.exc # "none" THEN Exc(g.exc, g.info, st)
        ELSE IF g.v.t = "Reference"
        THEN LET d == Reference_get(g.v, st.envs)
             IN  IF d.exc # "none" THEN Exc(d.exc, d.info, st) ELSE Val(d.v, st)
        ELSE Val(g.v, st)

\* A write to a name: through the Reference bound to it, if any, else a
\* rebinding in the current environment.
g_store(name, value, e, st) ==
    IF name \in DOMAIN st.envs[e] /\ st.envs[e][name].t = "Reference"
    THEN [st EXCEPT !.envs = Reference_set(st.envs[e][name], value, st.envs)]
    ELSE [st EXCEPT !.envs[e] = Env_set(st.envs[e], name, value)]

\* The position an integer index designates in a sequence of length n
\* (negative indices count from the end), or 0 when it is out of range.
PyIndex(k, n) ==
    IF k >= 0 /\ k < n THEN k + 1
    ELSE IF k < 0 /\ -k <= n THEN n + k + 1
    ELSE 0

\* The nodes of a list, left to right; acc: the values so far.
g_items(nodes, e, st, acc) ==
    IF nodes = <<>> THEN Val(acc, st)
    ELSE LET r == run("evaluate", Head(nodes), e, st, <<>>)
         IN  IF r.exc # "none" THEN r
             ELSE run("items", Tail(nodes), e, r.s, Append(acc, r.v))

\* The statements of a Block in order; acc: the value of the last one.
g_block(statements, e, st, acc) ==
    IF statements = <<>> THEN Val(acc, st)
    ELSE LET r == run("evaluate", Head(statements), e, st, <<>>)
         IN  IF r.exc # "none" THEN r
             ELSE run("block", Tail(statements), e, r.s, r.v)

\* The statements of a function body in order: a ReturnValue statement ends
\* the call with its value; acc: the value of the last statement.
g_body(statements, e, st, acc) ==
    IF statements = <<>> THEN Val(acc, st)
    ELSE IF Head(statements).kind = "ReturnValue"
    THEN run("evaluate", Head(statements).value, e, st, <<>>)
    ELSE LET r == run("evaluate", Head(statements), e, st, <<>>)
         IN  IF r.exc # "none" THEN r
             ELSE run("body", Tail(statements), e, r.s, r.v)

\* acc = <<result so far, iterations so far>>.
g_while(node, e, st, acc) ==
    IF acc[2] >= MaxIters THEN Exc("Unmodelled", <<"iterations">>, st)
    ELSE LET condition == run("evaluate", node.condition, e, st, <<>>)
         IN  IF condition.exc # "none" THEN condition
             ELSE IF ~Truthy(condition.v, condition.s.heap)
             THEN Val(acc[1], condition.s)
             ELSE LET body == run("evaluate", node.body, e, condition.s, <<>>)
                  IN  IF body.exc # "none" THEN body
                      ELSE run("while", node, e, body.s, <<body.v, acc[2] + 1>>)

\* Bind parameter k and those after it in the call environment c.ce: a ref
\* parameter to a Reference to the caller's variable, a value parameter to
\* the argument's value in the caller's environment e.
g_bind(c, e, st, k) ==
    IF k > Len(c.params) THEN Val(NoneV, st)
    ELSE LET is_ref == c.params[k][1]
             pname == c.params[k][2]
             arg == c.args[k]
         IN  IF is_ref
             THEN IF arg.kind # "Variable"
                  THEN Exc("RuntimeError", <<"ref parameter needs a variable", pname>>, st)
                  ELSE run("bind", c, e,
                           [st EXCEPT !.envs[c.ce] =
                               Env_define(st.envs[c.ce], pname, Reference(e, arg.name))],
                           k + 1)
             ELSE LET r == run("evaluate", arg, e, st, <<>>)
                  IN  IF r.exc # "none" THEN r
                      ELSE run("bind", c, e,
                               [r.s EXCEPT !.envs[c.ce] =
                                   Env_define(r.s.envs[c.ce], pname, r.v)],
                               k + 1)

g_call(node, e, st) ==
    LET f == Env_get(st.envs[e], node.name)
    IN  IF f.exc # "none" THEN Exc(f.exc, f.info, st)
        ELSE IF f.v.t = "builtin"
        THEN LET args == run("items", node.args, e, st, <<>>)
             IN  IF args.exc # "none" THEN args
                 ELSE IF Len(args.v) # 1
                 THEN Exc("TypeError", <<"takes 1 positional argument", Len(args.v)>>,
                          args.s)
                 ELSE LET r == gambl_len(args.v[1], args.s.heap)
                      IN  [exc |-> r.exc, v |-> r.v, s |-> args.s, info |-> r.info]
        ELSE IF f.v.t # "FunctionValue"
        THEN Exc("RuntimeError", <<"is not a function", node.name>>, st)
        ELSE IF Len(node.args) # Len(f.v.params)
        THEN Exc("RuntimeError",
                 <<"Function expects arguments", node.name, Len(f.v.params),
                   Len(node.args)>>, st)
        ELSE IF st.depth >= MaxDepth
        THEN Exc("RecursionError", <<>>, st)
        ELSE LET ce == Len(st.envs) + 1
                 st1 == [st EXCEPT !.envs = Append(@, Env_copy(st.envs[f.v.env])),
                                   !.depth = @ + 1]
                 bound == run("bind", [params |-> f.v.params, args |-> node.args,
                                       ce |-> ce], e, st1, 1)
             IN  IF bound.exc # "none"
                 THEN [bound EXCEPT !.s.depth = st.depth]
                 ELSE LET r == run("body", f.v.body, ce, bound.s, NoneV)
                      IN  [r EXCEPT !.s.depth = st.depth]

g_evaluate(node, e, st) ==
    CASE node.kind = "Number" -> Val(IntV(node.value), st)
      [] node.kind = "String" -> Val(StrV(node.value), st)
      [] node.kind = "Variable" -> g_lookup(node.name, e, st)
      [] node.kind = "BinOp" ->
           LET left == run("evaluate", node.left, e, st, <<>>)
           IN  IF left.exc # "none" THEN left
               ELSE LET right == run("evaluate", node.right, e, left.s, <<>>)
                    IN  IF right.exc # "none" THEN right
                        ELSE LET r == g_binop(node.op, left.v, right.v, right.s.heap)
                             IN  [exc |-> r.exc, v |-> r.v, s |-> right.s,
                                  info |-> r.info]
      [] node.kind = "UnaryOp" ->
           LET operand == run("evaluate", node.operand, e, st, <<>>)
           IN  IF operand.exc # "none" THEN operand
               ELSE IF node.op = <<"n", "o", "t">>
               THEN Val(BoolV(~Truthy(operand.v, operand.s.heap)), operand.s)
               ELSE IF node.op = <<"-">>
               THEN IF IsNum(operand.v) THEN Val(IntV(-AsInt(operand.v)), operand.s)
                    ELSE Exc("TypeError", <<"bad operand type for unary -", operand.v.t>>,
                             operand.s)
               ELSE Exc("RuntimeError", <<"Unknown unary operator", node.op>>, operand.s)
      [] node.kind = "If" ->
           LET condition == run("evaluate", node.condition, e, st, <<>>)
           IN  IF condition.exc # "none" THEN condition
               ELSE IF Truthy(condition.v, condition.s.heap)
                    THEN IF node.then_branch # NoneNode
                         THEN run("evaluate", node.then_branch, e, condition.s, <<>>)
                         ELSE Val(NoneV, condition.s)
                    ELSE IF node.else_branch # NoneNode
                         THEN run("evaluate", node.else_branch, e, condition.s, <<>>)
                         ELSE Val(NoneV, condition.s)
      [] node.kind = "While" -> run("while", node, e, st, <<NoneV, 0>>)
      [] node.kind = "Assignment" ->
           LET value == run("evaluate", node.value, e, st, <<>>)
           IN  IF value.exc # "none" THEN value
               ELSE Val(NoneV, g_store(node.name, value.v, e, value.s))
      [] node.kind = "ArrayLiteral" ->
           LET items == run("items", node.items, e, st, <<>>)
           IN  IF items.exc # "none" THEN items
               ELSE Val(ListV(Len(items.s.heap) + 1),
                        [items.s EXCEPT !.heap = Append(@, items.v)])
      [] node.kind = "Index" ->
           LET base == run("evaluate", node.base, e, st, <<>>)
           IN  IF base.exc # "none" THEN base
               ELSE LET index == run("evaluate", node.index, e, base.s, <<>>)
                    IN  IF index.exc # "none" THEN index
                        ELSE IF ~IsNum(index.v)
                        THEN Exc("TypeError", <<"Index must be integer">>, index.s)
                        ELSE IF base.v.t \notin {"list", "str"}
                        THEN Exc("TypeError", <<"object is not subscriptable", base.v.t>>,
                                 index.s)
                        ELSE LET items == IF base.v.t = "list"
                                          THEN index.s.heap[base.v.a] ELSE base.v.v
                                 pos == PyIndex(AsInt(index.v), Len(items))
                             IN  IF pos = 0
                                 THEN Exc("IndexError", <<"index out of range">>, index.s)
                                 ELSE IF base.v.t = "list" THEN Val(items[pos], index.s)
                                 ELSE Val(StrV(<<items[pos]>>), index.s)
      [] node.kind = "AssignIndex" ->
           LET base == run("evaluate", node.base, e, st, <<>>)
           IN  IF base.exc # "none" THEN base
               ELSE LET index == run("evaluate", node.index, e, base.s, <<>>)
               IN  IF index.exc # "none" THEN index
               ELSE LET value == run("evaluate", node.expr, e, index.s, <<>>)
               IN  IF value.exc # "none" THEN value
               ELSE IF ~IsNum(index.v)
               THEN Exc("TypeError", <<"Index must be integer">>, value.s)
               ELSE IF base.v.t # "list"
               THEN Exc("TypeError",
                        <<"object does not support item assignment", base.v.t>>, value.s)
               ELSE LET pos == PyIndex(AsInt(index.v), Len(value.s.heap[base.v.a]))
                    IN  IF pos = 0
                        THEN Exc("IndexError", <<"assignment index out of range">>,
                                 value.s)
                        ELSE Val(NoneV,
                                 [value.s EXCEPT !.heap[base.v.a][pos] = value.v])
      [] node.kind = "FunctionDef" ->
           Val(NoneV, [st EXCEPT !.envs[e] =
                          Env_set(st.envs[e], node.name,
                                  FunctionValue(node.params, node.statements, e))])
      [] node.kind = "Call" -> g_call(node, e, st)
      [] node.kind = "ReturnValue" -> run("evaluate", node.value, e, st, <<>>)
      [] node.kind = "Block" -> run("block", node.statements, e, st, NoneV)
      [] OTHER -> Exc("RuntimeError", <<"Unknown AST node", node.kind>>, st)

run(rule, node, e, st, acc) ==
    CASE rule = "evaluate" -> g_evaluate(node, e, st)
      [] rule = "items" -> g_items(node, e, st, acc)
      [] rule = "block" -> g_block(node, e, st, acc)
      [] rule = "body" -> g_body(node, e, st, acc)
      [] rule = "while" -> g_while(node, e, st, acc)
      [] rule = "bind" -> g_bind(node, e, st, acc)

\* The root environment of the test drivers: Env() with len bound.
RootEnv == Env_set(NewEnv, <<"l", "e", "n">>, BuiltinV("len"))

(***************************************************************************)
(* Inputs.                                                                 *)
(***************************************************************************)
SeqsUpTo(S, n) == UNION {[1..k -> S] : k \in 0..n}

N1 == Num(<<"1">>)
N2 == Num(<<"2">>)
N3 == Num(<<"3">>)
N4 == Num(<<"4">>)

ArithOps == {T_plus, T_minus, T_mul, T_div, T_mod, T_pow}

\* Free token sequences over literals, operators and parentheses.
ExprAlphabet == {N2, N3, T_plus, T_mul, T_pow, T_lparen, T_rparen}

\* Free token sequences over the statement-level tokens.
StmtAlphabet == {Id(<<"x">>), N1, T_assign, T_semi, T_lt, T_lbrack, T_rbrack}

\* Every operator pair, with and without a parenthesised operand.
OperandForms ==
    UNION {{<<N2, o1, N3, o2, N4>>,
            <<T_lparen, N2, o1, N3, T_rparen, o2, N4>>,
            <<N2, o1, T_lparen, N3, o2, N4, T_rparen>>} : o1 \in ArithOps, o2 \in ArithOps}

\* The programs of run_all_tests.
P_precedence == <<N1, T_plus, N2, T_mul, N3>>
P_parens == <<T_lparen, N1, T_plus, N2, T_rparen, T_plus,
              T_lparen, N3, T_plus, N4, T_rparen>>
P_power == <<N2, T_pow, N3, T_pow, N2>>

TestExpressions == {P_precedence, P_parens, P_power}

\* Programs of several statements, with and without a trailing ";".
P_two == <<Id(<<"x">>), T_assign, N1, T_semi, Id(<<"x">>), T_lt, N2>>
P_three == <<Id(<<"a">>), T_assign, N2, T_plus, N3, T_semi, Id(<<"a">>), T_semi,
             T_if, N1, T_then, N2, T_else, N3>>
P_index == <<Id(<<"x">>), T_lbrack, N1, T_rbrack, T_assign, N2, T_semi,
             Id(<<"x">>), T_lbrack, N1, T_rbrack, T_semi, N4>>

StatementPrograms ==
    UNION {{q, q \o <<T_semi>>, q \o <<T_semi, T_semi>>} :
             q \in {P_two, P_three, P_index, P_precedence}}

\* Every binary operator of the grammar between two integer literals.
BinaryOps == ArithOps \cup {T_eq, T_lt, T_gt, T_le, T_ge, T_and, T_or}

BinaryForms == {<<a, o, b>> : a \in {N1, N2}, o \in BinaryOps, b \in {N1, N2}}

\* A statement that starts with an indexed identifier: x[1] OP 2.
IndexedForms ==
    {<<Id(<<"x">>), T_lbrack, N1, T_rbrack, o, N2>> : o \in BinaryOps}

\* Operands with the outcome of their evaluation in an empty environment:
\* <<tokens, exception, value, exception details>>.
LogicOperands ==
    {<<<<Num(<<"0">>)>>, "none", 0, <<>>>>, <<<<N1>>, "none", 1, <<>>>>,
     <<<<N2>>, "none", 2, <<>>>>,
     <<<<Id(<<"y">>)>>, "NameError", 0, <<"Undefined variable", <<"y">>>>>>,
     <<<<Id(<<"z">>)>>, "NameError", 0, <<"Undefined variable", <<"z">>>>>>,
     <<<<N1, T_div, Num(<<"0">>)>>, "ZeroDivisionError", 0, <<>>>>}

\* L and R, L or R
LogicForms ==
    {l[1] \o <<o>> \o r[1] : l \in LogicOperands, o \in {T_and, T_or},
                              r \in LogicOperands}

Inputs ==
    SeqsUpTo(ExprAlphabet, MaxExprLen) \cup SeqsUpTo(StmtAlphabet, MaxStmtLen)
        \cup OperandForms \cup TestExpressions \cup StatementPrograms
        \cup BinaryForms \cup IndexedForms \cup LogicForms

NoResult == [exc |-> "none", v |-> NoneV, s |-> <<>>, info |-> <<>>]

NoHist == [op |-> "none"]

(***************************************************************************)
(* Spec: run_test_case on one program: ast = parse(code), then             *)
(* result = evaluate(ast, Env()).                                          *)
(***************************************************************************)
Init ==
    /\ tokens \in Inputs
    /\ i = 0
    /\ pc = "start"
    /\ ast = NoneNode
    /\ variables = NewEnv
    /\ envs = <<>>
    /\ heap = <<>>
    /\ result = NoResult
    /\ hist = NoHist

Parse ==
    /\ pc = "start"
    /\ LET r == parse(tokens)
       IN  /\ i' = r.i
           /\ ast' = r.node
           /\ pc' = IF r.ok THEN "parsed" ELSE "failed"
           /\ result' = Exc(r.exc, <<r.expected, r.got>>, <<>>)
    /\ UNCHANGED <<tokens, variables, envs, heap, hist>>

Evaluate ==
    /\ pc = "parsed"
    /\ LET r == evaluate(ast, variables)
       IN  /\ result' = r
           /\ variables' = r.s
           /\ pc' = "done"
    /\ UNCHANGED <<tokens, i, ast, envs, heap, hist>>

Next == Parse \/ Evaluate

Spec == Init /\ [][Next]_vars

(***************************************************************************)
(* C1.  The precedence ladder, stated independently of the descent: an     *)
(* expression splits at its last top-level + or -, failing that at its     *)
(* last top-level * / %, failing that at its first top-level ^; failing    *)
(* that it is a parenthesised expression or a literal.                     *)
(***************************************************************************)
BadTree == [kind |-> "Bad"]

\* The nesting depth of position k: opening minus closing parentheses before it.
ParenDepth(s, k) ==
    Cardinality({j \in 1..(k - 1) : s[j] = T_lparen})
        - Cardinality({j \in 1..(k - 1) : s[j] = T_rparen})

TopLevel(s, ops) == {k \in 1..Len(s) : s[k] \in ops /\ ParenDepth(s, k) = 0}

SetMax(S) == CHOOSE m \in S : \A n \in S : n <= m

SetMin(S) == CHOOSE m \in S : \A n \in S : m <= n

RECURSIVE LadderTree(_)
LadderSplit(s, k) ==
    LET l == LadderTree(SubSeq(s, 1, k - 1))
        r == LadderTree(SubSeq(s, k + 1, Len(s)))
    IN  IF l = BadTree \/ r = BadTree THEN BadTree ELSE BinOp(l, s[k][2], r)

LadderTree(s) ==
    IF TopLevel(s, {T_plus, T_minus}) # {}
    THEN LadderSplit(s, SetMax(TopLevel(s, {T_plus, T_minus})))
    ELSE IF TopLevel(s, {T_mul, T_div, T_mod}) # {}
    THEN LadderSplit(s, SetMax(TopLevel(s, {T_mul, T_div, T_mod})))
    ELSE IF TopLevel(s, {T_pow}) # {}
    THEN LadderSplit(s, SetMin(TopLevel(s, {T_pow})))
    ELSE IF Len(s) >= 3 /\ s[1] = T_lparen /\ s[Len(s)] = T_rparen
    THEN LadderTree(SubSeq(s, 2, Len(s) - 1))
    ELSE IF Len(s) = 1 /\ s[1][1] = "NUM" /\ IsIntText(s[1][2])
    THEN Number(IntOf(s[1][2]))
    ELSE BadTree

\* C1: for every expression over integer literals, parentheses and the binary
\* operators + - * / % ^, parse consumes it whole and returns the tree of the
\* precedence ladder (^ over * / % over + -, ^ right-associative, the others
\* left-associative, a parenthesised sub-expression one operand); evaluated,
\* 1 + 2 * 3 gives 7, (1 + 2) + (3 + 4) gives 10 and 2 ^ 3 ^ 2 gives 512.
C1_PrecedenceLadder ==
    /\ (pc # "start" /\ LadderTree(tokens) # BadTree) =>
          /\ pc \in {"parsed", "done"}
          /\ ast = LadderTree(tokens)
          /\ i = Len(tokens)
    /\ (pc = "done" /\ tokens = P_precedence) => result.v = IntV(7)
    /\ (pc = "done" /\ tokens = P_parens) => result.v = IntV(10)
    /\ (pc = "done" /\ tokens = P_power) => result.v = IntV(512)

C1_Witness ==
    /\ pc = "done"
    /\ tokens = P_power
    /\ ast = BinOp(Number(2), <<"^">>, BinOp(Number(3), <<"^">>, Number(2)))
    /\ result.v = IntV(512)

(***************************************************************************)
(* C10.                                                                    *)
(***************************************************************************)
\* C10: parse never returns an AST for a proper prefix of the tokens: when it
\* returns, no token is left unconsumed.
C10_NoPartialParse == pc \in {"parsed", "done"} => i = Len(tokens)

(***************************************************************************)
(* SpecEnv: define / set / get on one Env, and evaluate of `name + 2`.     *)
(* hist.log is the history of writes, oldest first.                        *)
(***************************************************************************)
EnvNames == {<<"x">>, <<"y">>, <<"z">>}

EnvValues == {IntV(1), IntV(2)}

InitEnv ==
    /\ tokens = <<>>
    /\ i = 0
    /\ pc = "env"
    /\ ast = NoneNode
    /\ variables = NewEnv
    /\ envs = <<>>
    /\ heap = <<>>
    /\ result = NoResult
    /\ hist = [op |-> "none", name |-> <<>>, log |-> <<>>, before |-> NewEnv]

DoDefine ==
    \E name \in EnvNames, value \in EnvValues :
        /\ Len(hist.log) < MaxOps
        /\ variables' = Env_define(variables, name, value)
        /\ result' = NoResult
        /\ hist' = [op |-> "define", name |-> name,
                    log |-> Append(hist.log, <<name, value>>), before |-> variables]
        /\ UNCHANGED <<tokens, i, pc, ast, envs, heap>>

DoSet ==
    \E name \in EnvNames, value \in EnvValues :
        /\ Len(hist.log) < MaxOps
        /\ variables' = Env_set(variables, name, value)
        /\ result' = NoResult
        /\ hist' = [op |-> "set", name |-> name,
                    log |-> Append(hist.log, <<name, value>>), before |-> variables]
        /\ UNCHANGED <<tokens, i, pc, ast, envs, heap>>

DoGet ==
    \E name \in EnvNames :
        /\ result' = Env_get(variables, name)
        /\ variables' = result'.s
        /\ hist' = [hist EXCEPT !.op = "get", !.name = name, !.before = variables]
        /\ UNCHANGED <<tokens, i, pc, ast, envs, heap>>

DoEvaluateVariable ==
    \E name \in EnvNames :
        /\ ast' = BinOp(Variable(name), <<"+">>, Number(2))
        /\ result' = evaluate(ast', variables)
        /\ variables' = result'.s
        /\ hist' = [hist EXCEPT !.op = "evaluate", !.name = name, !.before = variables]
        /\ UNCHANGED <<tokens, i, pc, envs, heap>>

NextEnv == DoDefine \/ DoSet \/ DoGet \/ DoEvaluateVariable

SpecEnv == InitEnv /\ [][NextEnv]_vars

Written(log, name) == \E k \in 1..Len(log) : log[k][1] = name

LastWrite(log, name) ==
    log[SetMax({k \in 1..Len(log) : log[k][1] = name})][2]

\* C2: after any sequence of define/set on one environment, get(name) returns
\* the value most recently written to name (set on an unbound name binds it),
\* get of a name never written raises the undefined-variable error naming it
\* and leaves the environment unchanged, and evaluating a Variable node of an
\* unbound name (`y + 2`) surfaces exactly that error.
C2_GetReturnsLastWrite ==
    pc = "env" =>
        /\ \A name \in EnvNames :
              LET g == Env_get(variables, name)
              IN  IF Written(hist.log, name)
                  THEN g.exc = "none" /\ g.v = LastWrite(hist.log, name)
                  ELSE g.exc = "NameError" /\ g.info = <<"Undefined variable", name>>
        /\ hist.op \in {"get", "evaluate"} =>
              /\ variables = hist.before
              /\ result.exc = IF Written(hist.log, hist.name) THEN "none" ELSE "NameError"
              /\ result.exc = "NameError" =>
                    result.info = <<"Undefined variable", hist.name>>
        /\ (hist.op = "get" /\ Written(hist.log, hist.name)) =>
              result.v = LastWrite(hist.log, hist.name)
        /\ (hist.op = "evaluate" /\ Written(hist.log, hist.name)) =>
              result.v = IntV(LastWrite(hist.log, hist.name).v + 2)

\* A name written twice with different values, the second by set, then read.
C2_Witness ==
    /\ pc = "env"
    /\ hist.op = "get"
    /\ Len(hist.log) >= 2
    /\ hist.log[1][1] = hist.name
    /\ hist.log[2][1] = hist.name
    /\ hist.log[1][2] # hist.log[2][2]
    /\ result.exc = "none"
    /\ result.v = hist.log[Len(hist.log)][2]

(***************************************************************************)
(* SpecWhile: the While branch of evaluate, one condition or body          *)
(* evaluation per step.  hist.conds is the truthiness of each condition    *)
(* evaluation so far, hist.bodies the number of body evaluations.          *)
(***************************************************************************)
Vi == Id(<<"i">>)
Vj == Id(<<"j">>)
N0 == Num(<<"0">>)
N5 == Num(<<"5">>)

L_lt3 == <<T_while, Vi, T_lt, N3, T_colon, Vi, T_assign, Vi, T_plus, N1>>
L_lt0 == <<T_while, Vi, T_lt, N0, T_colon, Vi, T_assign, Vi, T_plus, N1>>
L_down == <<T_while, Vi, T_colon, Vi, T_assign, Vi, T_minus, N1>>
L_by2 == <<T_while, Vi, T_lt, N3, T_colon, Vi, T_assign, Vi, T_plus, N2>>
L_diff == <<T_while, N3, T_minus, Vi, T_colon, Vi, T_assign, Vi, T_plus, N1>>
L_undef == <<T_while, Vj, T_lt, N3, T_colon, Vi, T_assign, Vi, T_plus, N1>>
L_bodyundef == <<T_while, Vi, T_lt, N3, T_colon, Vi, T_assign, Vj, T_plus, N1>>
L_nested == <<T_while, Vi, T_lt, N5, T_colon, T_if, Vi, T_mod, N2, T_eq, N0,
              T_then, Vi, T_assign, Vi, T_plus, N2,
              T_else, Vi, T_assign, Vi, T_plus, N1>>
L_inner == <<T_while, Vi, T_lt, N3, T_colon,
             T_while, Vi, T_lt, N2, T_colon, Vi, T_assign, Vi, T_plus, N1>>
L_pure == <<T_while, Vi, T_gt, N3, T_colon, Vi, T_plus, N1>>

LoopPrograms == {L_lt3, L_lt0, L_down, L_by2, L_diff, L_undef, L_bodyundef,
                 L_nested, L_inner, L_pure}

InitWhile ==
    /\ tokens \in LoopPrograms
    /\ i = parse(tokens).i
    /\ ast = parse(tokens).node
    /\ pc = "cond"
    /\ \E n \in 0..MaxIters : variables = Env_define(NewEnv, <<"i">>, IntV(n))
    /\ envs = <<>>
    /\ heap = <<>>
    /\ result = Val(NoneV, variables)
    /\ hist = [op |-> "while", conds |-> <<>>, bodies |-> 0, env0 |-> variables,
               lastBody |-> NoneV]

EvalCondition ==
    /\ pc = "cond"
    /\ hist.bodies < MaxIters
    /\ LET condition == evaluate(ast.condition, variables)
       IN  IF condition.exc # "none"
           THEN /\ pc' = "raised"
                /\ result' = condition
                /\ variables' = condition.s
                /\ hist' = hist
           ELSE /\ pc' = IF Truthy(condition.v, <<>>) THEN "body" ELSE "done"
                /\ result' = result
                /\ variables' = condition.s
                /\ hist' = [hist EXCEPT
                              !.conds = Append(@, Truthy(condition.v, <<>>))]
    /\ UNCHANGED <<tokens, i, ast, envs, heap>>

RunBody ==
    /\ pc = "body"
    /\ LET body == evaluate(ast.body, variables)
       IN  /\ result' = body
           /\ variables' = body.s
           /\ pc' = IF body.exc # "none" THEN "raised" ELSE "cond"
           /\ hist' = IF body.exc # "none" THEN hist
                      ELSE [hist EXCEPT !.bodies = @ + 1, !.lastBody = body.v]
    /\ UNCHANGED <<tokens, i, ast, envs, heap>>

NextWhile == EvalCondition \/ RunBody

SpecWhile == InitWhile /\ [][NextWhile]_vars

\* C3: the condition is evaluated before every iteration and the body runs
\* once per consecutive truthy evaluation; a condition falsy at the first
\* evaluation leaves the body unexecuted, the environment unchanged and the
\* result "no value"; otherwise the loop ends at the first falsy evaluation
\* with the value of the last body evaluation (i = 0, while i < 3 : i = i + 1
\* leaves i = 3; i = 5, while i < 0 : i = i + 1 leaves i = 5).
C3_WhileLoop ==
    hist.op = "while" =>
        /\ pc \in {"cond", "body", "done"} =>
              /\ Len(hist.conds) =
                    hist.bodies + (IF pc = "cond" THEN 0 ELSE 1)
              /\ \A k \in 1..Len(hist.conds) :
                    hist.conds[k] = ~(pc = "done" /\ k = Len(hist.conds))
        /\ pc = "done" =>
              /\ result.exc = "none"
              /\ hist.bodies = 0 => (variables = hist.env0 /\ result.v = NoneV)
              /\ hist.bodies > 0 => result.v = hist.lastBody
              /\ LET r == evaluate(ast, hist.env0)
                 IN  r.exc = "none" /\ r.v = result.v /\ r.s = variables
        /\ (pc = "done" /\ tokens = L_lt3 /\ hist.env0[<<"i">>] = IntV(0)) =>
              (variables[<<"i">>] = IntV(3) /\ hist.bodies = 3)
        /\ (pc = "done" /\ tokens = L_lt0 /\ hist.env0[<<"i">>] = IntV(5)) =>
              (variables[<<"i">>] = IntV(5) /\ hist.bodies = 0)

\* The loop of the test ran its three iterations and ended.
C3_Witness ==
    /\ hist.op = "while"
    /\ pc = "done"
    /\ tokens = L_lt3
    /\ hist.conds = <<TRUE, TRUE, TRUE, FALSE>>
    /\ hist.bodies = 3
    /\ variables[<<"i">>] = IntV(3)

(***************************************************************************)
(* SpecGambl: run_and_get_var / run_test_case on a Gambl program with      *)
(* functions, arrays and strings: ast = parse(code), then                  *)
(* evaluate(ast, env) in a root Env.  hist records which program family    *)
(* the code was drawn from and with which parameters.                      *)
(***************************************************************************)
Vx == Id(<<"x">>)
Vy == Id(<<"y">>)
Vz == Id(<<"z">>)
Vf == Id(<<"f">>)
N7 == Num(<<"7">>)
N10 == Num(<<"1", "0">>)

RECURSIVE Sep(_, _)
\* The token sequences of parts, joined by the token sep.
Sep(parts, sep) ==
    IF parts = <<>> THEN <<>>
    ELSE IF Len(parts) = 1 THEN parts[1]
    ELSE parts[1] \o <<sep>> \o Sep(Tail(parts), sep)

DefToks(name, params, body) ==
    <<T_def, name, T_lparen>> \o Sep(params, T_comma) \o <<T_rparen, T_colon>> \o body

CallToks(name, args) == <<name, T_lparen>> \o Sep(args, T_comma) \o <<T_rparen>>

\* Function bodies over the parameter y.
B_add5 == <<Vy, T_assign, Vy, T_plus, N5>>
B_twice == <<Vy, T_assign, Vy, T_mul, N2, T_semi, Vy, T_assign, Vy, T_plus, N1>>
B_const == <<Vy, T_assign, N7, T_semi, Vy, T_assign, Vy, T_minus, N1>>
B_square == <<Vy, T_assign, Vy, T_plus, N1, T_semi, Vy, T_assign, Vy, T_mul, Vy>>
B_local == <<Vz, T_assign, Vy, T_plus, N1>>
B_branch == <<T_if, Vy, T_lt, N5, T_then, Vy, T_assign, N0,
              T_else, Vy, T_assign, Vy, T_minus, N5>>
B_nested == <<T_if, Vy, T_gt, N1, T_then, T_if, Vy, T_gt, N5, T_then, Vy, T_assign, N1,
              T_else, Vy, T_assign, Vy, T_pow, N2>>
B_read == <<Vy, T_plus, N1>>
B_fail == <<Vy, T_assign, Vy, T_plus, N1, T_semi, Vy, T_assign, Vy, T_plus, Vz>>

ParamBodies == {B_add5, B_twice, B_const, B_square, B_local, B_branch, B_nested,
                B_read, B_fail}

\* Integer literals with their values.
IntLiterals == {<<N0, 0>>, <<N1, 1>>, <<N2, 2>>, <<N7, 7>>, <<N10, 10>>}

\* x = V; def f([ref] y) : BODY; f(x); x
ParamPrograms ==
    {[tokens |-> Sep(<<<<Vx, T_assign, lit[1]>>,
                       DefToks(Vf, <<IF is_ref THEN <<T_ref, Vy>> ELSE <<Vy>>>>, body),
                       CallToks(Vf, <<<<Vx>>>>),
                       <<Vx>>>>, T_semi),
      info |-> [op |-> "param", is_ref |-> is_ref, v |-> lit[2], body |-> body]] :
        lit \in IntLiterals, is_ref \in BOOLEAN, body \in ParamBodies}

N99 == Num(<<"9", "9">>)

\* Array literals with their items.
ArrayToks(lits) == <<T_lbrack>> \o Sep([k \in 1..Len(lits) |-> <<lits[k][1]>>], T_comma)
                       \o <<T_rbrack>>

ArrayLiterals == {<<<<N1, 1>>, <<N2, 2>>, <<N3, 3>>>>, <<<<N7, 7>>>>,
                  <<<<N10, 10>>, <<N0, 0>>>>}

\* String literals and integer literals with their values.
S_cat == <<"c", "a", "t">>
S_dog == <<"d", "o", "g">>
S_a == <<"a">>

ScalarLiterals == {<<N1, IntV(1)>>, <<N7, IntV(7)>>, <<Str(S_cat), StrV(S_cat)>>,
                   <<Str(S_dog), StrV(S_dog)>>, <<Str(<<>>), StrV(<<>>)>>}

\* An array held in x reaches a second holder, by a call (the parameter y)
\* or by an assignment (the variable z), and is index-assigned through one
\* holder and read through the other:
\*   pass:     x = ARR; def f(y) : y[I] = 99; f(x); x
\*   assigned: x = ARR; z = x; z[I] = 99; x
\*   origin:   x = ARR; z = x; x[I] = 99; z
SharePrograms ==
    UNION {{[tokens |->
               CASE mode = "pass" ->
                      Sep(<<<<Vx, T_assign>> \o ArrayToks(arr),
                            DefToks(Vf, <<<<Vy>>>>,
                                    <<Vy, T_lbrack, Num(<<Digit>>), T_rbrack, T_assign, N99>>),
                            CallToks(Vf, <<<<Vx>>>>), <<Vx>>>>, T_semi)
                 [] mode = "assigned" ->
                      Sep(<<<<Vx, T_assign>> \o ArrayToks(arr), <<Vz, T_assign, Vx>>,
                            <<Vz, T_lbrack, Num(<<Digit>>), T_rbrack, T_assign, N99>>,
                            <<Vx>>>>, T_semi)
                 [] mode = "origin" ->
                      Sep(<<<<Vx, T_assign>> \o ArrayToks(arr), <<Vz, T_assign, Vx>>,
                            <<Vx, T_lbrack, Num(<<Digit>>), T_rbrack, T_assign, N99>>,
                            <<Vz>>>>, T_semi),
             info |-> [op |-> "share", mode |-> mode,
                       items |-> [k \in 1..Len(arr) |-> IntV(arr[k][2])],
                       idx |-> DigitVal(Digit)]] :
              Digit \in {d \in Digits : DigitVal(d) < Len(arr)}} :
           arr \in ArrayLiterals, mode \in {"pass", "assigned", "origin"}}

\* The same with an integer or a string and a rebinding of one holder:
\*   pass:     x = S; def f(y) : y = T; f(x); x
\*   assigned: x = S; z = x; z = T; x
\*   origin:   x = S; z = x; x = T; z
CopyPrograms ==
    {[tokens |->
        CASE mode = "pass" ->
               Sep(<<<<Vx, T_assign, s[1]>>, DefToks(Vf, <<<<Vy>>>>, <<Vy, T_assign, t[1]>>),
                     CallToks(Vf, <<<<Vx>>>>), <<Vx>>>>, T_semi)
          [] mode = "assigned" ->
               Sep(<<<<Vx, T_assign, s[1]>>, <<Vz, T_assign, Vx>>, <<Vz, T_assign, t[1]>>,
                     <<Vx>>>>, T_semi)
          [] mode = "origin" ->
               Sep(<<<<Vx, T_assign, s[1]>>, <<Vz, T_assign, Vx>>, <<Vx, T_assign, t[1]>>,
                     <<Vz>>>>, T_semi),
      info |-> [op |-> "copy", mode |-> mode, s |-> s[2], t |-> t[2]]] :
        s \in ScalarLiterals, t \in ScalarLiterals, mode \in {"pass", "assigned", "origin"}}

MaxParams == 3
MaxArgs == 4

Vg == Id(<<"g">>)

\* The k-th parameter name: p1, p2, ...
ParamName(k) == Id(<<"p", CHOOSE d \in Digits : DigitVal(d) = k>>)

\* def f(p1, ..., pn) : return p1 + ... + pn (return 0 for n = 0), called
\* with m arguments k, k, ...: as a statement, inside an expression, or
\* from the body of another function.
\*   stmt:  [x = K;] def f(P) : return E; f(A)
\*   expr:  [x = K;] def f(P) : return E; f(A) + 1
\*   inner: [x = K;] def f(P) : return E; def g() : return f(A); g()
ArityPrograms ==
    {[tokens |->
        LET define == DefToks(Vf, [k \in 1..n |-> <<ParamName(k)>>],
                              <<T_return>> \o
                              (IF n = 0 THEN <<N0>>
                               ELSE Sep([k \in 1..n |-> <<ParamName(k)>>], T_plus)))
            call == CallToks(Vf, [k \in 1..m |-> IF byvar THEN <<Vx>> ELSE <<N2>>])
            prog == CASE where = "stmt" -> <<define, call>>
                      [] where = "expr" -> <<define, call \o <<T_plus, N1>>>>
                      [] where = "inner" ->
                           <<define, DefToks(Vg, <<>>, <<T_return>> \o call),
                             CallToks(Vg, <<>>)>>
        IN  Sep((IF byvar THEN <<<<Vx, T_assign, N2>>>> ELSE <<>>) \o prog, T_semi),
      info |-> [op |-> "arity", n |-> n, m |-> m, where |-> where]] :
        n \in 0..MaxParams, m \in 0..MaxArgs, byvar \in BOOLEAN,
        where \in {"stmt", "expr", "inner"}}

N42 == Num(<<"4", "2">>)

\* Argument expressions that are not a bare Variable.
RefArgForms == {<<N42>>, <<Vx, T_plus, N1>>, <<Str(S_cat)>>, <<T_lbrack, N1, T_rbrack>>,
                CallToks(Vg, <<>>), <<Vx, T_lbrack, N0, T_rbrack>>}

\* Bodies of a function with the ref parameter y.
RefBodies == {<<Vy, T_assign, Vy, T_plus, N1>>, <<T_return, N1>>,
              <<Vy, T_lbrack, N0, T_rbrack, T_assign, N1>>, <<Vx, T_assign, N1>>}

\* The argument in the other, by-value, position.
OtherArgs == {<<"literal", <<N1>>>>, <<"defined", <<Vx>>>>, <<"undefined", <<Vz>>>>}

\* x = 5; def f(PARAMS) : BODY; f(ARGS) -- PARAMS has n parameters, the r-th
\* being `ref y` and the other one the by-value p; ARGS has a non-Variable
\* expression in position r, and `extra` arguments more than PARAMS.
RefArgPrograms ==
    {[tokens |->
        LET params == [k \in 1..n |-> IF k = r THEN <<T_ref, Vy>> ELSE <<ParamName(k)>>]
            args == [k \in 1..(n + extra) |->
                        IF k = r THEN form ELSE IF k <= n THEN other[2] ELSE <<N1>>]
        IN  Sep(<<<<Vx, T_assign, N5>>, DefToks(Vf, params, body), CallToks(Vf, args)>>,
                T_semi),
      info |-> [op |-> "refarg", n |-> n, r |-> r, extra |-> extra, form |-> form,
                other |-> other[1], body |-> body]] :
        n \in 1..2, r \in 1..2, extra \in 0..1, form \in RefArgForms,
        other \in OtherArgs, body \in RefBodies}

S_x == <<"x">>

StringLiterals == {S_cat, S_dog, S_a}

Vs == Id(<<"s">>)

\* Index expressions, with their kind and value.
IndexForms == {<<"int", <<N0>>, 0>>, <<"int", <<N1>>, 1>>, <<"int", <<N2>>, 2>>,
               <<"int", <<N7>>, 7>>, <<"int", <<N0, T_minus, N1>>, -1>>,
               <<"str", <<Str(S_a)>>, 0>>, <<"list", <<T_lbrack, N1, T_rbrack>>, 0>>,
               <<"undefined", <<Vz>>, 0>>}

\* Right-hand sides, with whether they evaluate.
RhsForms == {<<"ok", <<Str(S_x)>>>>, <<"ok", <<N1>>>>, <<"ok", <<Vs>>>>,
             <<"undefined", <<Vz>>>>}

\* An index assignment on a string, held in a variable or in a by-value
\* parameter, and an index read:
\*   var:   s = "STR"; s[IDX] = RHS
\*   param: s = "STR"; def f(y) : y[IDX] = RHS; f(s)
\*   read:  s = "STR"; s[IDX]
StringPrograms ==
    {[tokens |->
        CASE mode = "var" ->
               Sep(<<<<Vs, T_assign, Str(str)>>,
                     <<Vs, T_lbrack>> \o idx[2] \o <<T_rbrack, T_assign>> \o rhs[2]>>, T_semi)
          [] mode = "param" ->
               Sep(<<<<Vs, T_assign, Str(str)>>,
                     DefToks(Vf, <<<<Vy>>>>,
                             <<Vy, T_lbrack>> \o idx[2] \o <<T_rbrack, T_assign>> \o rhs[2]),
                     CallToks(Vf, <<<<Vs>>>>)>>, T_semi)
          [] mode = "read" ->
               Sep(<<<<Vs, T_assign, Str(str)>>,
                     <<Vs, T_lbrack>> \o idx[2] \o <<T_rbrack>>>>, T_semi),
      info |-> [op |-> "string", mode |-> mode, str |-> str, idx |-> idx[1],
                k |-> idx[3], rhs |-> rhs[1]]] :
        mode \in {"var", "param", "read"}, str \in StringLiterals, idx \in IndexForms,
        rhs \in RhsForms}

\* def f(x) : S1; ...; Sn followed by nothing, by a ";" alone, or by ";" and
\* a call, a definition, a variable, a number or an assignment.
MaxBody == 3

BodyStatements ==
    {<<Vy, T_assign, Vx, T_mul, N2>>, <<T_return, Vy>>, <<Vz, T_assign, Vx, T_plus, N1>>}

BodyTail(tail) ==
    CASE tail = "none" -> <<>>
      [] tail = "semi" -> <<T_semi>>
      [] tail = "call" -> <<T_semi>> \o CallToks(Vf, <<<<N4>>>>)
      [] tail = "def" -> <<T_semi>> \o DefToks(Vg, <<>>, <<T_return, N1>>)
                           \o <<T_semi>> \o CallToks(Vg, <<>>)
      [] tail = "var" -> <<T_semi, Vx>>
      [] tail = "num" -> <<T_semi, N4>>
      [] tail = "assign" -> <<T_semi, Vz, T_assign>> \o CallToks(Vf, <<<<N4>>>>)

BodyPrograms ==
    {[tokens |-> DefToks(Vf, <<<<Vx>>>>, Sep(sts, T_semi)) \o BodyTail(tail),
      info |-> [op |-> "body", n |-> Len(sts), tail |-> tail]] :
        sts \in SeqsUpTo(BodyStatements, MaxBody) \ {<<>>},
        tail \in {"none", "semi", "call", "def", "var", "num", "assign"}}

Va == Id(<<"a">>)

\* Index expressions that are not integers: number literals with a
\* fraction, a string and an array.
NonIntegerIndexForms ==
    {<<"float", <<Num(<<"1", ".", "5">>)>>>>, <<"float", <<Num(<<"0", ".", "5">>)>>>>,
     <<"str", <<Str(S_a)>>>>, <<"list", <<T_lbrack, N1, T_rbrack>>>>}

\* a = [ITEMS]; a[IDX] = 7
IndexAssignPrograms ==
    {[tokens |-> Sep(<<<<Va, T_assign>> \o ArrayToks(arr),
                       <<Va, T_lbrack>> \o idx[2] \o <<T_rbrack, T_assign, N7>>>>, T_semi),
      info |-> [op |-> "index", idx |-> idx[1],
                items |-> [k \in 1..Len(arr) |-> IntV(arr[k][2])]]] :
        arr \in ArrayLiterals, idx \in NonIntegerIndexForms}

DigitOf(k) == CHOOSE d \in Digits : DigitVal(d) = k

Mark(j) == Id(<<"m", DigitOf(j)>>)

\* The body statement of kind kd at position j:
\*   set:      mj = j
\*   ret:      return x + j
\*   ifret:    if x < 2 then return j else return 0 - j
\*   expr:     x * j
\*   whileret: if x < 2 then while x < 2 : return j
ReturnStatement(kd, j) ==
    CASE kd = "set" -> <<Mark(j), T_assign, Num(<<DigitOf(j)>>)>>
      [] kd = "ret" -> <<T_return, Vx, T_plus, Num(<<DigitOf(j)>>)>>
      [] kd = "ifret" -> <<T_if, Vx, T_lt, N2, T_then, T_return, Num(<<DigitOf(j)>>),
                           T_else, T_return, N0, T_minus, Num(<<DigitOf(j)>>)>>
      [] kd = "expr" -> <<Vx, T_mul, Num(<<DigitOf(j)>>)>>
      [] kd = "whileret" -> <<T_if, Vx, T_lt, N2, T_then, T_while, Vx, T_lt, N2, T_colon,
                              T_return, Num(<<DigitOf(j)>>)>>

ReturnKinds == {"set", "ret", "ifret", "expr", "whileret"}

\* def f(x) : S1; ...; Sn; f(ARG)
ReturnPrograms ==
    {[tokens |-> Sep(<<DefToks(Vf, <<<<Vx>>>>,
                               Sep([j \in 1..Len(kinds) |-> ReturnStatement(kinds[j], j)],
                                   T_semi)),
                       CallToks(Vf, <<<<arg[1]>>>>)>>, T_semi),
      info |-> [op |-> "return", kinds |-> kinds, arg |-> arg[2]]] :
        kinds \in SeqsUpTo(ReturnKinds, MaxBody) \ {<<>>}, arg \in {<<N1, 1>>, <<N5, 5>>}}

Vp == Id(<<"p">>)
N100 == Num(<<"1", "0", "0">>)

\* Bodies over the parameter pn that read and rebind the outer x and y.
ScopeBody(kd, pn) ==
    CASE kd = "read" -> <<T_return, pn, T_plus, Vy>>
      [] kd = "rebind" -> <<Vx, T_assign, Vx, T_plus, N1, T_semi, Vz, T_assign, N7, T_semi,
                            T_return, Vx, T_plus, Vy>>
      [] kd = "rebindy" -> <<Vy, T_assign, Vy, T_plus, N1, T_semi, T_return, Vy>>

\* x = V; y = Y; def f(P) : BODY; f(A)            (again = FALSE)
\* x = V; y = Y; def f(P) : BODY; f(A); y = W; f(A)   (again = TRUE)
ScopePrograms ==
    {[tokens |-> Sep(<<<<Vx, T_assign, v[1]>>, <<Vy, T_assign, y[1]>>,
                       DefToks(Vf, <<<<pn>>>>, ScopeBody(kd, pn)),
                       CallToks(Vf, <<<<a[1]>>>>)>>
                     \o (IF again THEN <<<<Vy, T_assign, N2>>, CallToks(Vf, <<<<a[1]>>>>)>>
                         ELSE <<>>), T_semi),
      info |-> [op |-> "scope", body |-> kd, pname |-> pn[2], x |-> v[2], y |-> y[2],
                w |-> 2, a |-> a[2], again |-> again]] :
        kd \in {"read", "rebind", "rebindy"}, pn \in {Vx, Vp},
        v \in {<<N1, 1>>, <<N10, 10>>}, y \in {<<N7, 7>>, <<N100, 100>>},
        a \in {<<N5, 5>>, <<N0, 0>>}, again \in BOOLEAN}

GamblPrograms ==
    ParamPrograms \cup SharePrograms \cup CopyPrograms \cup ArityPrograms
        \cup BodyPrograms \cup IndexAssignPrograms \cup ReturnPrograms
        \cup ScopePrograms
        \cup {p \in RefArgPrograms : p.info.r <= p.info.n
                                      /\ (p.info.n = 1 => p.info.other = "literal")}
        \cup {p \in StringPrograms : p.info.mode = "read" => p.info.rhs = "ok"}

InitGambl ==
    /\ \E p \in GamblPrograms : tokens = p.tokens /\ hist = p.info
    /\ i = 0
    /\ pc = "start"
    /\ ast = NoneNode
    /\ variables = NewEnv
    /\ envs = <<RootEnv>>
    /\ heap = <<>>
    /\ result = NoResult

\* evaluate(ast, env) with the Gambl evaluator, env being the root Env.
GamblEvaluate ==
    /\ pc = "parsed"
    /\ LET r == run("evaluate", ast, 1, [envs |-> envs, heap |-> heap, depth |-> 0],
                    <<>>)
       IN  /\ result' = [exc |-> r.exc, v |-> r.v, s |-> <<>>, info |-> r.info]
           /\ envs' = r.s.envs
           /\ heap' = r.s.heap
           /\ pc' = "done"
    /\ UNCHANGED <<tokens, i, ast, variables, hist>>

NextGambl == Parse \/ GamblEvaluate

SpecGambl == InitGambl /\ [][NextGambl]_vars

RECURSIVE RunDirect(_, _)
\* The statements executed one after the other on a plain variable table.
RunDirect(statements, env) ==
    IF statements = <<>> THEN Val(NoneV, env)
    ELSE LET r == evaluate(Head(statements), env)
         IN  IF r.exc # "none" \/ Len(statements) = 1 THEN r
             ELSE RunDirect(Tail(statements), r.s)

\* C4: for x = V; def f(P) : BODY; f(x); x -- with a by-value parameter y the
\* caller's x is V after the call whatever BODY assigns to y, and y is a
\* plain binding of the call environment; with a ref parameter y is bound to
\* a Reference to the caller's slot x, and after the call x holds what BODY,
\* executed directly on a variable holding V, leaves in it: the last value
\* assigned (V = 10, BODY y = y + 5: by value x stays 10, by ref x is 15).
C4_RefVsValue ==
    (pc = "done" /\ hist.op = "param") =>
        LET direct == RunDirect(descend("parse_loop", hist.body, 0, <<>>).node,
                                Env_define(NewEnv, <<"y">>, IntV(hist.v)))
            x == envs[1][<<"x">>]
            y == envs[2][<<"y">>]
        IN  /\ Len(envs) = 2
            /\ result.exc = direct.exc
            /\ result.exc = "none" => result.v = x
            /\ IF hist.is_ref
               THEN x = direct.s[<<"y">>] /\ y = Reference(1, <<"x">>)
               ELSE x = IntV(hist.v) /\ y = direct.s[<<"y">>]
            /\ (hist.v = 10 /\ hist.body = B_add5) =>
                  x = IntV(IF hist.is_ref THEN 15 ELSE 10)

\* The by-reference test: x = 10; def f(ref y) : y = y + 5; f(x); x gives 15.
C4_Witness ==
    /\ pc = "done"
    /\ hist.op = "param"
    /\ hist.is_ref
    /\ hist.v = 10
    /\ hist.body = B_add5
    /\ envs[1][<<"x">>] = IntV(15)
    /\ result.v = IntV(15)

\* The value bound in the second holder: the parameter y of the call
\* environment, or the variable z.
OtherHolder == IF hist.mode = "pass" THEN envs[2][<<"y">>] ELSE envs[1][<<"z">>]

\* C5: an array passed to a plain parameter or assigned to another variable
\* is the same array in both holders -- an index assignment through either
\* one shows through the other, and no second array exists (arr = [1,2,3];
\* a[0] = 99 in set0(arr) leaves arr = [99,2,3]) -- whereas after an integer
\* or a string is passed or assigned the same way, rebinding one holder
\* leaves the other with its value.
C5_ArraysShared ==
    /\ (pc = "done" /\ hist.op = "share") =>
          /\ result.exc = "none"
          /\ result.v.t = "list"
          /\ envs[1][<<"x">>] = result.v
          /\ OtherHolder = result.v
          /\ Len(heap) = 1
          /\ heap[result.v.a] = [hist.items EXCEPT ![hist.idx + 1] = IntV(99)]
    /\ (pc = "done" /\ hist.op = "copy") =>
          /\ result.exc = "none"
          /\ result.v = hist.s
          /\ IF hist.mode = "origin"
             THEN envs[1][<<"x">>] = hist.t /\ envs[1][<<"z">>] = hist.s
             ELSE envs[1][<<"x">>] = hist.s /\ OtherHolder = hist.t

\* The array-mutation test: arr = [1,2,3]; def set0(a) : a[0] = 99;
\* set0(arr); arr gives [99,2,3].
C5_Witness ==
    /\ pc = "done"
    /\ hist.op = "share"
    /\ hist.mode = "pass"
    /\ hist.items = <<IntV(1), IntV(2), IntV(3)>>
    /\ hist.idx = 0
    /\ result.v.t = "list"
    /\ heap[result.v.a] = <<IntV(99), IntV(2), IntV(3)>>
    /\ envs[2][<<"y">>] = envs[1][<<"x">>]

\* C6: a call of a user-defined function with fewer or more arguments than
\* declared parameters fails with the arity-mismatch error, which names the
\* function and states the declared and the actual count (two_param(1) and
\* two_param(1, 2, 3) report 2 expected and 1 resp. 3 given); a call with
\* exactly the declared count does not raise it and returns the body's value.
C6_ArityMismatch ==
    (pc = "done" /\ hist.op = "arity") =>
        IF hist.m # hist.n
        THEN /\ result.exc = "RuntimeError"
             /\ result.info = <<"Function expects arguments", <<"f">>, hist.n, hist.m>>
        ELSE /\ result.exc = "none"
             /\ result.v = IntV(2 * hist.n + (IF hist.where = "expr" THEN 1 ELSE 0))

\* The too-many-arguments test: two_param(1, 2, 3) reports 2 expected, 3 given.
C6_Witness ==
    /\ pc = "done"
    /\ hist.op = "arity"
    /\ hist.where = "stmt"
    /\ hist.n = 2
    /\ hist.m = 3
    /\ result.exc = "RuntimeError"
    /\ result.info = <<"Function expects arguments", <<"f">>, 2, 3>>

\* The call failed with the ref-argument error.
RefArgumentError ==
    /\ result.exc = "RuntimeError"
    /\ result.info = <<"ref parameter needs a variable", <<"y">>>>

\* C7 as stated: every call with a non-Variable argument expression in the
\* position of a ref parameter fails with the ref-argument error.
C7_RefArgAlwaysFails == (pc = "done" /\ hist.op = "refarg") => RefArgumentError

\* C7 as amended: a call with the declared number of arguments, whose
\* arguments before the ref position evaluate without error and which has a
\* non-Variable argument expression in the position of a ref parameter,
\* fails with the ref-argument error whatever the function body, and the
\* body does not run; with another number of arguments the call fails with
\* the arity error, and an earlier argument's own error is the one raised.
C7_RefArgFails ==
    (pc = "done" /\ hist.op = "refarg") =>
        IF hist.extra # 0
        THEN /\ result.exc = "RuntimeError"
             /\ result.info = <<"Function expects arguments", <<"f">>, hist.n,
                                hist.n + hist.extra>>
        ELSE IF hist.r = 2 /\ hist.other = "undefined"
        THEN result.exc = "NameError"
        ELSE /\ RefArgumentError
             /\ envs[1][<<"x">>] = IntV(5)
             /\ Len(heap) = 0

\* The test: def f(ref y) : y = y + 1; f(42) fails with the ref-argument error.
C7_Witness ==
    /\ pc = "done"
    /\ hist.op = "refarg"
    /\ hist.n = 1
    /\ hist.extra = 0
    /\ hist.form = <<N42>>
    /\ hist.body = <<Vy, T_assign, Vy, T_plus, N1>>
    /\ RefArgumentError

\* The index assignment failed because a string does not support it.
ItemAssignmentError ==
    /\ result.exc = "TypeError"
    /\ result.info = <<"object does not support item assignment", "str">>

\* An index read at a position of the string yields the one-character string
\* at that position (s = "cat"; s[1] is "a").
StringRead ==
    (pc = "done" /\ hist.op = "string" /\ hist.mode = "read" /\ hist.idx = "int"
        /\ hist.k >= 0 /\ hist.k < Len(hist.str)) =>
        (result.exc = "none" /\ result.v = StrV(<<hist.str[hist.k + 1]>>))

\* C9 as stated: every index assignment whose base evaluates to a string
\* fails with the item-assignment type error and leaves the string bound to
\* the variable unchanged; an index read yields the character.
C9_StringsImmutableAlways ==
    /\ (pc = "done" /\ hist.op = "string" /\ hist.mode # "read") =>
          (ItemAssignmentError /\ envs[1][<<"s">>] = StrV(hist.str))
    /\ StringRead

\* C9 as amended: an index assignment whose base evaluates to a string, whose
\* index evaluates to an integer (in range or not) and whose right-hand side
\* evaluates without error fails with the item-assignment type error; an
\* index that is not an integer fails with "Index must be integer" and an
\* operand's own error is raised as it is; in every case the string bound to
\* the variable is unchanged, and an index read yields the one-character
\* string at that position.
C9_StringsImmutable ==
    /\ (pc = "done" /\ hist.op = "string" /\ hist.mode # "read") =>
          /\ envs[1][<<"s">>] = StrV(hist.str)
          /\ hist.mode = "param" => envs[2][<<"y">>] = StrV(hist.str)
          /\ IF hist.idx = "undefined" \/ hist.rhs = "undefined"
             THEN result.exc = "NameError"
             ELSE IF hist.idx # "int"
             THEN result.exc = "TypeError" /\ result.info = <<"Index must be integer">>
             ELSE ItemAssignmentError
    /\ StringRead

\* The test: s = "cat"; s[0] = "x" fails and s is still "cat".
C9_Witness ==
    /\ pc = "done"
    /\ hist.op = "string"
    /\ hist.mode = "var"
    /\ hist.str = S_cat
    /\ hist.k = 0
    /\ hist.idx = "int"
    /\ ItemAssignmentError
    /\ envs[1][<<"s">>] = StrV(S_cat)

(***************************************************************************)
(* SpecLen: the built-in len of the test drivers, gambl_len, applied to    *)
(* one Gambl value of any type.                                            *)
(***************************************************************************)
MaxLenArg == 3

\* The values a Gambl expression can yield: integers, booleans, "no value",
\* functions and built-ins, strings, and arrays (ArrayArgs: their items).
IntArgs == {IntV(n) : n \in -2..MaxLenArg}

BoolArgs == {BoolV(b) : b \in BOOLEAN}

ObjectArgs ==
    {NoneV, BuiltinV("len"),
     FunctionValue(<<<<FALSE, <<"x">>>>>>, <<ReturnValue(Variable(<<"x">>))>>, 1)}

StringArgs == {StrV(chars) : chars \in SeqsUpTo({"c", "a", "t"}, MaxLenArg)}

ArrayArgs == SeqsUpTo({IntV(1), IntV(2)}, MaxLenArg)

InitLen ==
    /\ \/ \E x \in IntArgs : heap = <<>> /\ hist = [op |-> "len", x |-> x]
       \/ \E x \in BoolArgs : heap = <<>> /\ hist = [op |-> "len", x |-> x]
       \/ \E x \in ObjectArgs : heap = <<>> /\ hist = [op |-> "len", x |-> x]
       \/ \E x \in StringArgs : heap = <<>> /\ hist = [op |-> "len", x |-> x]
       \/ \E items \in ArrayArgs :
             heap = <<items>> /\ hist = [op |-> "len", x |-> ListV(1)]
    /\ tokens = <<>>
    /\ i = 0
    /\ pc = "start"
    /\ ast = NoneNode
    /\ variables = NewEnv
    /\ envs = <<RootEnv>>
    /\ result = NoResult

\* len(x)
CallLen ==
    /\ pc = "start"
    /\ LET r == gambl_len(hist.x, heap)
       IN  result' = [exc |-> r.exc, v |-> r.v, s |-> <<>>, info |-> r.info]
    /\ pc' = "done"
    /\ UNCHANGED <<tokens, i, ast, variables, envs, heap, hist>>

NextLen == CallLen

SpecLen == InitLen /\ [][NextLen]_vars

\* The names under which a message can name the type of a value (a boolean
\* is an integer of the host too).
TypeNames(v) ==
    CASE v.t = "None" -> {"NoneType"}
      [] v.t = "bool" -> {"bool", "int"}
      [] v.t = "FunctionValue" -> {"FunctionValue", "function"}
      [] v.t = "builtin" -> {"function", "builtin_function_or_method"}
      [] OTHER -> {v.t}

\* C8: len(x) returns the number of elements of an array or of characters of
\* a string (len([1,2,3]) = 3, len("cat") = 3, len([]) = 0), and for an
\* argument of any other type it fails with a type error whose message names
\* the type of that argument.
C8_LenContract ==
    (pc = "done" /\ hist.op = "len") =>
        CASE hist.x.t = "list" ->
               result.exc = "none" /\ result.v = IntV(Len(heap[hist.x.a]))
          [] hist.x.t = "str" ->
               result.exc = "none" /\ result.v = IntV(Len(hist.x.v))
          [] OTHER ->
               /\ result.exc = "TypeError"
               /\ result.info[1] = "object of type"
               /\ result.info[2] \in TypeNames(hist.x)

(***************************************************************************)
(* SpecLex: tokenize(src) and Parser.parse(src) on a source text.          *)
(* hist.src is the text, hist.via the entry point taken, hist.starts the   *)
(* offset of each token.                                                   *)
(***************************************************************************)
MaxSrcLen == 4

\* Free texts over operator characters and keyword letters, and over
\* characters no pattern starts with, comments, strings and newlines.
OpAlphabet == {"=", "<", ">", "i", "f", " ", "1"}
ErrAlphabet == {"$", ".", "#", "\"", "\n", "a", "1"}

\* Words that start with a keyword, keywords, and operators between names.
W_iffy == <<"i", "f", "f", "y">>
W_order == <<"o", "r", "d", "e", "r">>
W_define == <<"d", "e", "f", "i", "n", "e">>
W_returns == <<"r", "e", "t", "u", "r", "n", "s">>
W_eq == <<"a", "=", "=", "b">>
W_le == <<"a", "<", "=", "b">>
W_ge == <<"a", ">", "=", "b">>
W_bad == <<"x", " ", "=", " ", "2", " ", "$", " ", "3", " ", "@">>

Keywords == {T_and, T_or, T_not, T_ref, T_if, T_then, T_else, T_while, T_def, T_return}

Sources ==
    SeqsUpTo(OpAlphabet, MaxSrcLen) \cup SeqsUpTo(ErrAlphabet, MaxSrcLen)
        \cup {W_iffy, W_order, W_define, W_returns, W_eq, W_le, W_ge, W_bad}
        \cup {k[2] : k \in Keywords}
        \cup {k[2] \o <<"_">> : k \in Keywords} \cup {<<"2">> \o k[2] : k \in Keywords}

InitLex ==
    /\ \E src \in Sources : hist = [op |-> "lex", src |-> src, via |-> "none",
                                    starts |-> <<>>]
    /\ tokens = <<>>
    /\ i = 0
    /\ pc = "start"
    /\ ast = NoneNode
    /\ variables = NewEnv
    /\ envs = <<>>
    /\ heap = <<>>
    /\ result = NoResult

\* tokenize(src)
Tokenize ==
    /\ pc = "start"
    /\ LET r == lex(hist.src)
       IN  /\ tokens' = IF r.ok THEN r.tokens ELSE <<>>
           /\ pc' = IF r.ok THEN "lexed" ELSE "lexfailed"
           /\ result' = IF r.ok THEN NoResult
                        ELSE Exc(r.exc, <<r.char, r.index>>, <<>>)
           /\ hist' = [hist EXCEPT !.via = "tokenize", !.starts = r.starts]
    /\ UNCHANGED <<i, ast, variables, envs, heap>>

\* Parser.parse(src): self.tokens = list(lex(src)), then the statements.
ParseSource ==
    /\ pc = "start"
    /\ \E r \in {lex(hist.src)} :
       LET t == parse(r.tokens)
       IN  /\ hist' = [hist EXCEPT !.via = "parse", !.starts = r.starts]
           /\ IF ~r.ok
              THEN /\ pc' = "lexfailed"
                   /\ result' = Exc(r.exc, <<r.char, r.index>>, <<>>)
                   /\ UNCHANGED <<tokens, i, ast>>
              ELSE /\ tokens' = r.tokens
                   /\ i' = t.i
                   /\ ast' = t.node
                   /\ pc' = IF t.ok THEN "parsed" ELSE "failed"
                   /\ result' = Exc(t.exc, <<t.expected, t.got>>, <<>>)
    /\ UNCHANGED <<variables, envs, heap>>

NextLex == Tokenize \/ ParseSource

SpecLex == InitLex /\ [][NextLex]_vars

\* The characters some token, blank or comment pattern can start with; a
\* quote starts a string only when the string is closed further on.
PatternStart ==
    WordChars \cup Blank \cup {"=", "<", ">", "+", "-", "*", "/", "%", "^", "[", "]",
                               "(", ")", ",", ":", ";", "#"}

\* Offset q of src lies in a comment: after a "#" of the same line.
AfterHash(src, q) ==
    \E r \in 1..q : src[r] = "#" /\ \A k \in r..q : src[k] # "\n"

\* Offset q of src lies between two quotes.
BetweenQuotes(src, q) ==
    /\ \E r \in 1..q : src[r] = "\""
    /\ \E r \in (q + 2)..Len(src) : src[r] = "\""

\* C11: when a text holds a character that matches no token pattern, lexing
\* fails with an error that names that character and its offset, the first
\* such character in scan order -- the text before it lexes without error
\* -- and Parser.parse(src) fails the same way and produces no AST; a text
\* that lexes holds such a character only inside a comment or a string.
C11_LexError ==
    hist.op = "lex" =>
        /\ pc = "lexfailed" =>
              LET c == result.info[1]
                  p == result.info[2]
              IN  /\ result.exc = "ValueError"
                  /\ p \in 0..(Len(hist.src) - 1)
                  /\ hist.src[p + 1] = c
                  /\ c \notin PatternStart
                  /\ c = "\"" => \A r \in (p + 2)..Len(hist.src) : hist.src[r] # "\""
                  /\ lex(SubSeq(hist.src, 1, p)).ok
                  /\ lex(SubSeq(hist.src, 1, p)).starts = hist.starts
                  /\ ast = NoneNode /\ tokens = <<>>
        /\ pc \in {"lexed", "parsed", "failed"} =>
              \A q \in 0..(Len(hist.src) - 1) :
                  hist.src[q + 1] \in {"$", "@"} =>
                      AfterHash(hist.src, q) \/ BetweenQuotes(hist.src, q)
        /\ (pc # "start" /\ hist.src = W_bad) =>
              (pc = "lexfailed" /\ result.info = <<"$", 6>>)

\* Parser.parse on a text whose third character matches no pattern.
C11_Witness ==
    /\ hist.op = "lex"
    /\ hist.via = "parse"
    /\ pc = "lexfailed"
    /\ hist.src = <<"a", "1", "$", "$">>
    /\ result.exc = "ValueError"
    /\ result.info = <<"$", 2>>
    /\ ast = NoneNode

\* The identifier-shaped words of src: the offsets at which a maximal run
\* of word characters starts with a letter or an underscore.
WordStarts(src) ==
    {p \in 0..(Len(src) - 1) :
        /\ src[p + 1] \in IdStart
        /\ p > 0 => src[p] \notin WordChars}

\* The kind a whole word lexes as: its keyword kind, or ID.
WordKind(word) ==
    IF \E k \in Keywords : k[2] = word
    THEN (CHOOSE k \in Keywords : k[2] = word)[1]
    ELSE "ID"

\* C12: `==`, `<=` and `>=` are never split -- no ASSIGN token follows an
\* ASSIGN, LT or GT token without a gap -- and every word (a maximal run of
\* word characters starting with a letter or underscore, outside strings
\* and comments) is exactly one token: the keyword token when the whole
\* word is the keyword, an ID token otherwise (iffy, order, define, returns
\* are single IDs).
C12_NoSplit ==
    (hist.op = "lex" /\ pc \in {"lexed", "parsed", "failed"}
        /\ \A q \in 1..Len(hist.src) : hist.src[q] \notin {"#", "\""}) =>
        /\ Len(hist.starts) = Len(tokens)
        /\ \A k \in 1..(Len(tokens) - 1) :
              (tokens[k][1] \in {"ASSIGN", "LT", "GT"} /\ tokens[k + 1][1] = "ASSIGN")
                  => hist.starts[k + 1] > hist.starts[k] + 1
        /\ \A p \in WordStarts(hist.src) :
              LET word == SubSeq(hist.src, p + 1, p + RunLen(hist.src, p, WordChars))
              IN  /\ \E k \in 1..Len(tokens) :
                        /\ hist.starts[k] = p
                        /\ tokens[k] = Tk(WordKind(word), word)
                  /\ \A k \in 1..Len(tokens) :
                        ~(hist.starts[k] > p /\ hist.starts[k] < p + Len(word))
        /\ hist.src \in {W_iffy, W_order, W_define, W_returns} =>
              tokens = <<Id(hist.src)>>
        /\ hist.src = W_le => tokens = <<Id(<<"a">>), T_le, Id(<<"b">>)>>

\* iffy lexes as one ID.
C12_Witness ==
    /\ hist.op = "lex"
    /\ hist.via = "tokenize"
    /\ pc = "lexed"
    /\ hist.src = W_iffy
    /\ tokens = <<Id(W_iffy)>>

RECURSIVE SplitSemi(_, _)
\* The segments of toks between its ";" tokens (cur: the segment so far).
SplitSemi(toks, cur) ==
    IF toks = <<>> THEN <<cur>>
    ELSE IF Head(toks) = T_semi THEN <<cur>> \o SplitSemi(Tail(toks), <<>>)
    ELSE SplitSemi(Tail(toks), Append(cur, Head(toks)))

\* The ";"-separated statements of toks, a trailing ";" closing the last one.
Statements(toks) ==
    LET segs == SplitSemi(toks, <<>>)
    IN  IF segs[Len(segs)] = <<>> THEN SubSeq(segs, 1, Len(segs) - 1) ELSE segs

\* C13: for a program parsed to its end (no "def" in it, so that every ";"
\* separates top-level statements), parse returns the Block of the
\* statements' trees in source order when there are several statements and
\* the bare tree of the statement when there is one (an empty program gives
\* the empty Block); a trailing ";" with nothing after it is accepted and
\* gives the same tree as the program without it.
C13_BlockOrStatement ==
    (hist.op = "none" /\ pc \in {"parsed", "done"} /\ i = Len(tokens)) =>
        LET sts == Statements(tokens)
            trees == [k \in 1..Len(sts) |-> parse(sts[k])]
        IN  /\ \A k \in 1..Len(sts) :
                  sts[k] # <<>> /\ trees[k].ok /\ trees[k].i = Len(sts[k])
            /\ ast = IF Len(sts) = 1 THEN trees[1].node
                     ELSE Block([k \in 1..Len(sts) |-> trees[k].node])
            /\ Len(sts) = 1 => ast.kind # "Block"
            /\ (tokens # <<>> /\ tokens[Len(tokens)] # T_semi) =>
                  LET t == parse(tokens \o <<T_semi>>)
                  IN  t.ok /\ t.node = ast /\ t.i = Len(tokens) + 1

\* A program of three statements with a trailing ";" parsed to a Block of three.
C13_Witness ==
    /\ hist.op = "none"
    /\ pc = "parsed"
    /\ tokens = P_three \o <<T_semi>>
    /\ i = Len(tokens)
    /\ ast.kind = "Block"
    /\ Len(ast.statements) = 3
    /\ ast.statements[2] = Variable(<<"a">>)

\* A segment that ends a function body: it starts with `def` or with `ID (`.
EndsBody(seg) ==
    /\ seg # <<>>
    /\ \/ seg[1][1] = "DEF"
       \/ seg[1][1] = "ID" /\ Len(seg) >= 2 /\ seg[2][2] = <<"(">>

\* The statements of a tree: those of a Block, or the tree alone.
StatementsOf(node) == IF node.kind = "Block" THEN node.statements ELSE <<node>>

\* C14: in def f(x) : S1; S2; ... the body is made of the ";"-separated
\* statements up to, and not including, the first one that starts with `def`
\* or with an identifier immediately followed by "(", or up to the end of
\* the input; the ";" before that statement is left to the top level, which
\* goes on with it as the next top-level statement.
C14_BodyExtent ==
    (hist.op = "body" /\ pc \in {"parsed", "done"}) =>
        LET colon == CHOOSE k \in 1..Len(tokens) :
                         /\ tokens[k] = T_colon
                         /\ \A j \in 1..(k - 1) : tokens[j] # T_colon
            segs == SplitSemi(SubSeq(tokens, colon + 1, Len(tokens)), <<>>)
            stops == {k \in 2..Len(segs) : EndsBody(segs[k]) \/ segs[k] = <<>>}
            cut == IF stops = {} THEN Len(segs) + 1
                   ELSE CHOOSE k \in stops : \A j \in stops : k <= j
            body == [k \in 1..(cut - 1) |-> body_statement(segs[k], 0).node]
            fd == StatementsOf(ast)[1]
            rest == Sep(SubSeq(segs, cut, Len(segs)), T_semi)
        IN  /\ i = Len(tokens)
            /\ fd.kind = "FunctionDef"
            /\ fd.statements = body
            /\ IF rest = <<>> THEN ast = fd
               ELSE /\ ast.kind = "Block"
                    /\ Tail(ast.statements) = StatementsOf(parse(rest).node)

\* def f(x) : y = x * 2; return y; f(4) is a FunctionDef with exactly two
\* body statements, then the top-level call f(4).
C14_Witness ==
    /\ hist.op = "body"
    /\ pc = "parsed"
    /\ tokens = DefToks(Vf, <<<<Vx>>>>, <<Vy, T_assign, Vx, T_mul, N2, T_semi, T_return, Vy>>)
                  \o <<T_semi>> \o CallToks(Vf, <<<<N4>>>>)
    /\ ast.kind = "Block"
    /\ Len(ast.statements) = 2
    /\ Len(ast.statements[1].statements) = 2
    /\ ast.statements[2] = Call(<<"f">>, <<Number(4)>>)

\* C15: a program A OP B, with A and B integer literals and OP any binary
\* operator the parser builds a BinOp for (+ - * / % ^ == < > <= >= and or),
\* evaluates to a value and never fails with "Unknown operator".
C15_EveryOperatorEvaluates ==
    (hist.op = "none" /\ pc = "done" /\ tokens \in BinaryForms) =>
        /\ ast = BinOp(Number(ast.left.value), tokens[2][2], Number(ast.right.value))
        /\ result.exc = "none"

\* C16: a statement x[1] OP 2 that starts with an indexed identifier and is
\* not an index assignment is parsed by the full expression grammar: the
\* tree is the BinOp of OP over the Index node and the literal, and no token
\* is left unread.
C16_IndexedExpression ==
    (hist.op = "none" /\ pc \in {"parsed", "done"} /\ tokens \in IndexedForms) =>
        /\ i = Len(tokens)
        /\ ast = BinOp(Index(Variable(<<"x">>), Number(1)), tokens[5][2], Number(2))

(***************************************************************************)
(* SpecUnary: evaluate applied to UnaryOp nodes, and the programs that      *)
(* write a unary operator, parsed and evaluated.                           *)
(***************************************************************************)
MaxOperand == 12

UnaryOperands ==
    UNION {{Number(n), BinOp(Number(n), <<"<">>, Number(0))} :
             n \in (0 - MaxOperand)..MaxOperand}

UnaryNodes == {UnaryOp(op, x) : op \in {<<"n", "o", "t">>, <<"-">>}, x \in UnaryOperands}

\* -5, not 1, 0 - 5, and x = -5; x
UnaryPrograms ==
    {<<T_minus, N5>>, <<T_not, N1>>, <<N0, T_minus, N5>>,
     <<Vx, T_assign, T_minus, N5, T_semi, Vx>>}

InitUnary ==
    /\ \/ tokens = <<>> /\ pc = "parsed" /\ ast \in UnaryNodes
       \/ tokens \in UnaryPrograms /\ pc = "start" /\ ast = NoneNode
    /\ i = 0
    /\ variables = NewEnv
    /\ envs = <<>>
    /\ heap = <<>>
    /\ result = NoResult
    /\ hist = [op |-> "unary"]

SpecUnary == InitUnary /\ [][Next]_vars

\* C17: evaluating UnaryOp(not, X) gives the boolean negation of X's
\* truthiness, and evaluating UnaryOp(-, X) on an integer X gives -X;
\* neither ends in an error.
C17_UnaryOps ==
    (hist.op = "unary" /\ pc = "done" /\ ast.kind = "UnaryOp"
        /\ (ast.op = <<"-">> => ast.operand.kind = "Number")) =>
        LET operand == evaluate(ast.operand, NewEnv)
        IN  /\ result.exc = "none"
            /\ ast.op = <<"n", "o", "t">> => result.v = BoolV(~Truthy(operand.v, <<>>))
            /\ ast.op = <<"-">> => result.v = IntV(0 - AsInt(operand.v))

\* C18: a = [ITEMS]; a[IDX] = 7 with IDX not an integer (1.5, 0.5, a string,
\* an array) is parsed and its evaluation fails at the index check with the
\* TypeError "Index must be integer", the array being left as it was.
C18_IndexMustBeInteger ==
    (hist.op = "index" /\ pc \in {"failed", "done"}) =>
        /\ pc = "done"
        /\ result.exc = "TypeError"
        /\ result.info = <<"Index must be integer">>
        /\ envs[1][<<"a">>].t = "list"
        /\ heap[envs[1][<<"a">>].a] = hist.items

\* The position of the first top-level return of the body, or one past the
\* end of the body.
FirstReturn(kinds) ==
    IF \E j \in 1..Len(kinds) : kinds[j] = "ret"
    THEN CHOOSE j \in 1..Len(kinds) :
             kinds[j] = "ret" /\ \A h \in 1..(j - 1) : kinds[h] # "ret"
    ELSE Len(kinds) + 1

\* The position of the first statement whose loop runs with a return as its
\* body (the argument is below 2), or one past the end of the body.
FirstLoop(kinds, arg) ==
    IF arg < 2 /\ \E j \in 1..Len(kinds) : kinds[j] = "whileret"
    THEN CHOOSE j \in 1..Len(kinds) :
             kinds[j] = "whileret" /\ \A h \in 1..(j - 1) : kinds[h] # "whileret"
    ELSE Len(kinds) + 1

\* The value of the body statement of kind kd at position j, x being arg.
StatementValue(kd, j, arg) ==
    CASE kd = "set" -> NoneV
      [] kd = "ret" -> IntV(arg + j)
      [] kd = "ifret" -> IntV(IF arg < 2 THEN j ELSE 0 - j)
      [] kd = "expr" -> IntV(arg * j)
      [] kd = "whileret" -> NoneV

\* C19: in def f(x) : S1; ...; Sn; f(ARG) the statements run in order up to
\* the first top-level return, whose value is the call's result, and no
\* statement after it runs (its mark is unbound in the call environment); a
\* return inside an if gives the if its value and the statements after it
\* still run; a return inside a running loop does not end the loop or the
\* call (the loop is still running after MaxIters iterations); without a
\* top-level return the result is the value of the last statement.
C19_ReturnEndsCall ==
    (hist.op = "return" /\ pc = "done") =>
        LET kinds == hist.kinds
            n == Len(kinds)
            ret == FirstReturn(kinds)
            loop == FirstLoop(kinds, hist.arg)
            stop == IF loop < ret THEN loop ELSE ret
        IN  /\ Len(envs) = 2
            /\ \A j \in 1..n :
                  kinds[j] = "set" => (Mark(j)[2] \in DOMAIN envs[2] <=> j < stop)
            /\ \A j \in 1..n :
                  (kinds[j] = "set" /\ j < stop) => envs[2][Mark(j)[2]] = IntV(j)
            /\ IF loop < ret
               THEN result.exc = "Unmodelled" /\ result.info = <<"iterations">>
               ELSE /\ result.exc = "none"
                    /\ result.v = StatementValue(kinds[IF ret <= n THEN ret ELSE n],
                                                 IF ret <= n THEN ret ELSE n, hist.arg)

\* def f(x) : m1 = 1; return x + 2; m3 = 3; f(5) gives 7 and never binds m3;
C19_Witness ==
    /\ hist.op = "return"
    /\ pc = "done"
    /\ hist.kinds = <<"set", "ret", "set">>
    /\ hist.arg = 5
    /\ result.v = IntV(7)
    /\ <<"m", "1">> \in DOMAIN envs[2]
    /\ <<"m", "3">> \notin DOMAIN envs[2]

\* C20: in x = V; y = Y; def f(P) : BODY; f(A) [; y = W; f(A)] every call
\* runs in an environment of its own that starts with the bindings of the
\* defining environment as they are when that call starts (the second call
\* reads y = W, and nothing the first call bound) and with P bound to A, P
\* hiding an outer x of the same name; after the calls the defining
\* environment holds x = V and the y last assigned at the top level, and
\* neither the parameter nor the z the body creates.
C20_CallEnvironment ==
    (hist.op = "scope" /\ pc = "done") =>
        LET ycur == IF hist.again THEN hist.w ELSE hist.y
            xin == IF hist.pname = <<"x">> THEN hist.a ELSE hist.x
            calls == IF hist.again THEN 2 ELSE 1
            ce == envs[Len(envs)]
        IN  /\ result.exc = "none"
            /\ result.v = CASE hist.body = "read" -> IntV(hist.a + ycur)
                            [] hist.body = "rebind" -> IntV(xin + 1 + ycur)
                            [] hist.body = "rebindy" -> IntV(ycur + 1)
            /\ Len(envs) = 1 + calls
            /\ DOMAIN envs[1] = {<<"l", "e", "n">>, <<"x">>, <<"y">>, <<"f">>}
            /\ envs[1][<<"x">>] = IntV(hist.x)
            /\ envs[1][<<"y">>] = IntV(ycur)
            /\ DOMAIN ce = DOMAIN envs[1] \cup {hist.pname}
                              \cup (IF hist.body = "rebind" THEN {<<"z">>} ELSE {})
            /\ ce[<<"f">>] = envs[1][<<"f">>]
            /\ ce[<<"x">>] = IntV(IF hist.body = "rebind" THEN xin + 1 ELSE xin)
            /\ ce[<<"y">>] = IntV(IF hist.body = "rebindy" THEN ycur + 1 ELSE ycur)
            /\ ce[hist.pname] = IF hist.pname = <<"x">> THEN ce[<<"x">>] ELSE IntV(hist.a)

\* x = 10; y = 100; def f(x) : x = x + 1; z = 7; return x + y; f(5); y = 2; f(5)
\* gives 8 (5 + 1 + 2), and x is still 10 in the defining environment.
C20_Witness ==
    /\ hist.op = "scope"
    /\ pc = "done"
    /\ hist.body = "rebind"
    /\ hist.pname = <<"x">>
    /\ hist.again
    /\ hist.x = 10 /\ hist.y = 100 /\ hist.a = 5
    /\ result.v = IntV(8)
    /\ envs[1][<<"x">>] = IntV(10)
    /\ envs[3][<<"x">>] = IntV(6)
    /\ <<"z">> \notin DOMAIN envs[1]

\* C21: L and R, L or R -- both operands are evaluated, the left one first:
\* a failing L gives L's error, otherwise a failing R gives R's error even
\* when L alone decides the result (0 and y, 1 or y), and only then is the
\* operator applied to the two values.
C21_EagerLogic ==
    (hist.op = "none" /\ pc = "done" /\ tokens \in LogicForms) =>
        \A l \in LogicOperands, r \in LogicOperands, o \in {T_and, T_or} :
            tokens = l[1] \o <<o>> \o r[1] =>
                IF l[2] # "none" THEN result.exc = l[2] /\ result.info = l[4]
                ELSE IF r[2] # "none" THEN result.exc = r[2] /\ result.info = r[4]
                ELSE /\ result.exc = "none"
                     /\ result.v = IntV(IF o = T_and
                                        THEN (IF l[3] # 0 THEN r[3] ELSE l[3])
                                        ELSE (IF l[3] # 0 THEN l[3] ELSE r[3]))

\* 0 and y fails with the NameError of y.
C21_Witness ==
    /\ hist.op = "none"
    /\ pc = "done"
    /\ tokens = <<Num(<<"0">>), T_and, Id(<<"y">>)>>
    /\ result.exc = "NameError"
    /\ result.info = <<"Undefined variable", <<"y">>>>

(***************************************************************************)
(* SpecRepl: the read-eval-print loop of Interpreter.py.  variables is the *)
(* loop's env, result.v its local `result`, result.exc the exception the   *)
(* last iteration caught; hist records the statement forms of the line     *)
(* read, the env it started from and whether `result` is bound.            *)
(***************************************************************************)
MaxLines == 2
MaxStmts == 2

LowerLetters == <<"a", "b", "c", "d", "e", "f", "g", "h", "i", "j", "k", "l", "m",
                  "n", "o", "p", "q", "r", "s", "t", "u", "v", "w", "x", "y", "z">>
UpperLetters == <<"A", "B", "C", "D", "E", "F", "G", "H", "I", "J", "K", "L", "M",
                  "N", "O", "P", "Q", "R", "S", "T", "U", "V", "W", "X", "Y", "Z">>

\* str.lower()
lower(text) ==
    [k \in 1..Len(text) |->
        IF \E n \in 1..26 : UpperLetters[n] = text[k]
        THEN LowerLetters[CHOOSE n \in 1..26 : UpperLetters[n] = text[k]]
        ELSE text[k]]

\* str.strip(): without the whitespace at both ends.
strip(text) ==
    LET inner == {k \in 1..Len(text) : text[k] \notin Blank}
    IN  IF inner = {} THEN <<>>
        ELSE SubSeq(text, CHOOSE k \in inner : \A j \in inner : k <= j,
                    CHOOSE k \in inner : \A j \in inner : k >= j)

RECURSIVE split(_, _, _)
\* str.split(sep): the pieces of text between the occurrences of the
\* character sep (cur: the piece so far).
split(text, sep, cur) ==
    IF text = <<>> THEN <<cur>>
    ELSE IF Head(text) = sep THEN <<cur>> \o split(Tail(text), sep, <<>>)
    ELSE split(Tail(text), sep, Append(cur, Head(text)))

\* The outcome of parse(src) as the loop sees it: the tree, or the exception.
Parsed(t) == [ok |-> t.ok, node |-> t.node, exc |-> t.exc, info |-> <<t.expected, t.got>>]

\* The statements of Parser.parse on what lex gave (r).
parse_lexed(r) ==
    IF ~r.ok
    THEN [ok |-> FALSE, node |-> NoneNode, exc |-> r.exc, info |-> <<r.char, r.index>>]
    ELSE Parsed(parse(r.tokens))

\* Parser().parse(src) of the module-level parse(src): lex, then the statements.
parse_source(src) == parse_lexed(lex(src))

\* What one pass over the statements of a line leaves: the exception that
\* ended it (or "none"), the env, the local `result` and whether it is bound.
LoopState(exc, info, env, res, bound) ==
    [exc |-> exc, info |-> info, env |-> env, res |-> res, bound |-> bound]

RECURSIVE for_statements(_, _, _, _)

\* result = evaluate(ast, env), r being what evaluate gave: an exception
\* leaves the loop, a value is stored and the loop goes on with rest.
store_result(r, rest, res, bound) ==
    IF r.exc # "none" THEN LoopState(r.exc, r.info, r.s, res, bound)
    ELSE for_statements(rest, r.s, r.v, TRUE)

\* ast = parse(stmt), a being what parse gave: an exception leaves the loop.
evaluate_parsed(a, rest, env, res, bound) ==
    IF ~a.ok THEN LoopState(a.exc, a.info, env, res, bound)
    ELSE store_result(evaluate(a.node, env), rest, res, bound)

\* Mutant: a statement that fails to parse is skipped and the loop goes on.
run_statement_skip_failed(stmt, rest, env, res, bound) ==
    IF stmt = <<>> \/ ~parse_source(stmt).ok THEN for_statements(rest, env, res, bound)
    ELSE evaluate_parsed(parse_source(stmt), rest, env, res, bound)

\* if stmt: ast = parse(stmt); result = evaluate(ast, env)
run_statement(stmt, rest, env, res, bound) ==
    IF stmt = <<>> THEN for_statements(rest, env, res, bound)
    ELSE evaluate_parsed(parse_source(stmt), rest, env, res, bound)

\* for stmt in statements: stmt = stmt.strip(); ... -- an exception leaves
\* the loop with env as the statements so far have made it.
for_statements(statements, env, res, bound) ==
    IF statements = <<>> THEN LoopState("none", <<>>, env, res, bound)
    ELSE run_statement(strip(Head(statements)), Tail(statements), env, res, bound)

\* The statement forms of the lines typed, with their text: x=1, y = x + 1
\* (followed by an empty statement), and statements that fail in the
\* evaluator, in the parser and in the lexer.
FormText(f) ==
    CASE f = "setx" -> <<"x", "=", "1">>
      [] f = "sety" -> <<" ", "y", " ", "=", " ", "x", " ", "+", " ", "1", ";", " ">>
      [] f = "undef" -> <<"z", "=", "q">>
      [] f = "syntax" -> <<"x", "=", "(">>
      [] f = "lexerr" -> <<"x", "=", "$">>

Forms == {"setx", "sety", "undef", "syntax", "lexerr"}

RECURSIVE Join(_, _)
\* The texts joined by the character sep.
Join(texts, sep) ==
    IF texts = <<>> THEN <<>>
    ELSE IF Len(texts) = 1 THEN texts[1]
    ELSE texts[1] \o <<sep>> \o Join(Tail(texts), sep)

LineOf(fs) == Join([k \in 1..Len(fs) |-> FormText(fs[k])], ";")

QuitLines == {<<"q", "u", "i", "t">>, <<"E", "X", "I", "T">>, <<" ", "Q", "u", "i", "t", " ">>}

InitRepl ==
    /\ tokens = <<>>
    /\ i = 0
    /\ pc = "prompt"
    /\ ast = NoneNode
    /\ variables = NewEnv
    /\ envs = <<>>
    /\ heap = <<>>
    /\ result = NoResult
    /\ hist = [op |-> "repl", forms |-> <<>>, before |-> NewEnv, bound |-> FALSE,
               lines |-> 0, ran |-> FALSE]

\* line = input(">>> ").strip(); quit or exit: break.
ReplQuit ==
    /\ pc = "prompt"
    /\ \E raw \in QuitLines : lower(strip(raw)) \in {<<"q", "u", "i", "t">>,
                                                      <<"e", "x", "i", "t">>}
    /\ pc' = "exited"
    /\ UNCHANGED <<tokens, i, ast, variables, envs, heap, result, hist>>

\* An empty line: continue.
ReplEmpty ==
    /\ pc = "prompt"
    /\ hist.lines < MaxLines
    /\ \E raw \in {<<>>, <<" ", " ">>} : strip(raw) = <<>>
    /\ hist' = [hist EXCEPT !.forms = <<>>, !.before = variables, !.lines = @ + 1,
                            !.ran = FALSE]
    /\ UNCHANGED <<tokens, i, pc, ast, variables, envs, heap, result>>

\* A line of statements: split at ";", run them in env, print the result or
\* the error, and prompt again.
ReplLine ==
    /\ pc = "prompt"
    /\ hist.lines < MaxLines
    /\ \E fs \in SeqsUpTo(Forms, MaxStmts) \ {<<>>} :
        \E line \in {strip(LineOf(fs))} :
          /\ line # <<>>
          /\ lower(line) \notin {<<"q", "u", "i", "t">>, <<"e", "x", "i", "t">>}
          /\ \E r \in {for_statements(split(line, ";", <<>>), variables, result.v,
                                      hist.bound)} :
               /\ variables' = r.env
               /\ result' = IF r.exc = "none" /\ ~r.bound
                            THEN Exc("UnboundLocalError", <<"result">>, <<>>)
                            ELSE [exc |-> r.exc, v |-> r.res, s |-> <<>>, info |-> r.info]
               /\ hist' = [hist EXCEPT !.forms = fs, !.before = variables,
                                       !.bound = r.bound, !.lines = @ + 1, !.ran = TRUE]
    /\ UNCHANGED <<tokens, i, pc, ast, envs, heap>>

NextRepl == ReplQuit \/ ReplEmpty \/ ReplLine

SpecRepl == InitRepl /\ [][NextRepl]_vars

\* What a statement form does to an environment: whether it fails, and the
\* environment it leaves.
Effect(f, env) ==
    CASE f = "setx" -> [failed |-> FALSE, env |-> Env_set(env, <<"x">>, IntV(1))]
      [] f = "sety" ->
           IF <<"x">> \in DOMAIN env
           THEN [failed |-> FALSE, env |-> Env_set(env, <<"y">>, IntV(env[<<"x">>].v + 1))]
           ELSE [failed |-> TRUE, env |-> env]
      [] OTHER -> [failed |-> TRUE, env |-> env]

RECURSIVE Expected(_, _)
\* The forms applied one after the other up to the first that fails.
Expected(fs, env) ==
    IF fs = <<>> THEN [failed |-> FALSE, env |-> env]
    ELSE LET e == Effect(Head(fs), env)
         IN  IF e.failed THEN e ELSE Expected(Tail(fs), e.env)

\* C22: after a line S1; ...; Sn read at the prompt, the environment is the
\* one the line started from with the effects of the statements before the
\* first failing one and of no later statement; a failure is caught and
\* reported, and the loop is back at the prompt with that environment, from
\* which the next line starts.
C22_ReplKeepsEnvironment ==
    (hist.op = "repl" /\ hist.ran) =>
        LET e == Expected(hist.forms, hist.before)
        IN  /\ variables = e.env
            /\ e.failed => result.exc # "none"
            /\ ~e.failed => result.exc = "none"
            /\ pc \in {"prompt", "exited"}

\* After x=1;z=q;y = x + 1 (which fails at z=q, x bound and y not), the next
\* line y = x + 1 sees x = 1 and binds y = 2.
C22_Witness ==
    /\ hist.op = "repl"
    /\ hist.ran
    /\ pc = "prompt"
    /\ hist.lines = 2
    /\ hist.forms = <<"sety">>
    /\ hist.before = Env_set(NewEnv, <<"x">>, IntV(1))
    /\ result.exc = "none"
    /\ variables[<<"x">>] = IntV(1)
    /\ variables[<<"y">>] = IntV(2)

(***************************************************************************)
(* SpecCursor: the cursor of the parser.  Each primitive and each          *)
(* production or loop of Parser.py is applied at every cursor position of  *)
(* a token sequence; hist records which one and the cursor it started at,  *)
(* i is the cursor it left, ast what it returned.                          *)
(***************************************************************************)
MaxCursorLen == 3

CursorAlphabet == {Id(<<"x">>), T_lparen, T_rparen, T_semi, T_comma, T_plus}

\* def f(ref x, y): y = x + 1; return y; f(a, 4)
P_def ==
    <<T_def, Id(<<"f">>), T_lparen, T_ref, Id(<<"x">>), T_comma, Id(<<"y">>), T_rparen,
      T_colon, Id(<<"y">>), T_assign, Id(<<"x">>), T_plus, N1, T_semi, T_return,
      Id(<<"y">>), T_semi, Id(<<"f">>), T_lparen, Id(<<"a">>), T_comma, N4, T_rparen>>

\* a[0] = [1, 2][1] * g(); while a < 2: if a == 1 or x then y else z
P_loops ==
    <<Id(<<"a">>), T_lbrack, N0, T_rbrack, T_assign, T_lbrack, N1, T_comma, N2,
      T_rbrack, T_lbrack, N1, T_rbrack, T_mul, Id(<<"g">>), T_lparen, T_rparen,
      T_semi, T_while, Id(<<"a">>), T_lt, N2, T_colon, T_if, Id(<<"a">>), T_eq, N1,
      T_or, Id(<<"x">>), T_then, Id(<<"y">>), T_else, Id(<<"z">>)>>

\* The token sequence without its n-th token.
Without(toks, n) == SubSeq(toks, 1, n - 1) \o SubSeq(toks, n + 1, Len(toks))

\* A program, its prefixes and the program with one token left out.
Damaged(toks) ==
    {SubSeq(toks, 1, n) : n \in 0..Len(toks)} \cup {Without(toks, n) : n \in 1..Len(toks)}

CursorInputs == SeqsUpTo(CursorAlphabet, MaxCursorLen) \cup Damaged(P_def) \cup Damaged(P_loops)

\* The left operand an operator loop starts from.
Left == Variable(<<"l">>)

Productions ==
    {"parse_factor", "parse_power", "parse_term", "parse_expr", "parse_comparison",
     "parse_equality", "parse_and", "parse_or", "parse_if", "parse_assignment",
     "parse_while", "parse_return", "body_statement", "parse_function_def",
     "parse_statement"}

ListLoops == {"expr_list_loop", "params_loop", "body_loop", "parse_loop"}

OperatorLoops ==
    {"index_loop", "term_loop", "expr_loop", "comparison_loop", "equality_loop",
     "and_loop", "or_loop"}

\* The kinds and values the productions ask eat_kind and eat_val for.
EatenKinds == {"ID", "COLON", "RBRACK", "RPAREN", "ASSIGN"}
EatenVals == {<<"(">>, <<")">>, <<";">>, <<",">>}

Step(rule, start) == [op |-> "cursor", rule |-> rule, start |-> start]

InitCursor ==
    /\ tokens \in CursorInputs
    /\ i = 0
    /\ pc = "start"
    /\ ast = NoneNode
    /\ variables = NewEnv
    /\ envs = <<>>
    /\ heap = <<>>
    /\ result = NoResult
    /\ hist = Step("none", 0)

\* What a step at cursor k left: the cursor, the node or token, the outcome.
Returned(r, rule, k) ==
    /\ i' = r.i
    /\ ast' = r.node
    /\ pc' = IF r.ok THEN "parsed" ELSE "failed"
    /\ result' = Exc(r.exc, <<r.expected, r.got>>, <<>>)
    /\ hist' = Step(rule, k)
    /\ UNCHANGED <<tokens, variables, envs, heap>>

CursorCurrent ==
    /\ pc = "start"
    /\ \E k \in 0..Len(tokens) : Returned(Ok(current(tokens, k), k), "current", k)

CursorAdvance ==
    /\ pc = "start"
    /\ \E k \in 0..Len(tokens) :
         Returned(Ok(current(tokens, k), advance(tokens, k)), "advance", k)

CursorEatKind ==
    /\ pc = "start"
    /\ \E k \in 0..Len(tokens), name \in EatenKinds :
         Returned(eat_kind(tokens, k, name), "eat_kind", k)

CursorEatVal ==
    /\ pc = "start"
    /\ \E k \in 0..Len(tokens), pat \in EatenVals :
         Returned(eat_val(tokens, k, pat), "eat_val", k)

CursorProduction ==
    /\ pc = "start"
    /\ \E k \in 0..Len(tokens), rule \in Productions :
         Returned(descend(rule, tokens, k, <<>>), rule, k)

CursorItems ==
    /\ pc = "start"
    /\ \E k \in 0..Len(tokens), close \in {"RBRACK", "RPAREN"} :
         Returned(descend("parse_items", tokens, k, close), "parse_items", k)

CursorListLoop ==
    /\ pc = "start"
    /\ \E k \in 0..Len(tokens), rule \in ListLoops :
         Returned(descend(rule, tokens, k, <<>>), rule, k)

CursorOperatorLoop ==
    /\ pc = "start"
    /\ \E k \in 0..Len(tokens), rule \in OperatorLoops :
         Returned(descend(rule, tokens, k, Left), rule, k)

CursorParse ==
    /\ pc = "start"
    /\ Returned(parse(tokens), "parse", 0)

NextCursor ==
    \/ CursorCurrent
    \/ CursorAdvance
    \/ CursorEatKind
    \/ CursorEatVal
    \/ CursorProduction
    \/ CursorItems
    \/ CursorListLoop
    \/ CursorOperatorLoop
    \/ CursorParse

SpecCursor == InitCursor /\ [][NextCursor]_vars

RECURSIVE Wraps(_, _)
\* How many times an operator loop has wrapped the node it started from.
Wraps(node, base) ==
    IF node = base THEN 0
    ELSE IF node.kind = "BinOp" THEN 1 + Wraps(node.left, base)
    ELSE 1 + Wraps(node.base, base)

\* C23: Parser.parse ends on every token sequence, with an AST or an
\* exception; no step moves the cursor back or past the end of the tokens;
\* a failed eat_kind or eat_val leaves the cursor where it was and a
\* successful one moves it by one; reading at the end of the tokens gives the
\* ("EOF", "") token; every production that returns has consumed a token, and
\* every loop has consumed at least one token for each of its iterations.
C23_CursorProgress ==
    (hist.op = "cursor" /\ hist.rule # "none") =>
        /\ pc \in {"parsed", "failed"}
        /\ (pc = "failed") = (result.exc # "none")
        /\ hist.start <= i
        /\ i <= Len(tokens)
        /\ hist.rule \in {"eat_kind", "eat_val"} =>
              i = IF pc = "failed" THEN hist.start ELSE hist.start + 1
        /\ (hist.rule \in {"current", "advance"} /\ hist.start = Len(tokens)) =>
              ast = EOFToken /\ i = hist.start
        /\ (hist.rule \in Productions \cup {"parse_items"} /\ pc = "parsed") =>
              i > hist.start
        /\ (hist.rule \in ListLoops /\ pc = "parsed") => i - hist.start >= Len(ast)
        /\ (hist.rule \in OperatorLoops /\ pc = "parsed") =>
              i - hist.start >= Wraps(ast, Left)
        /\ (hist.rule = "parse" /\ pc = "parsed" /\ ast.kind = "Block") =>
              i >= Len(ast.statements)

\* def f(ref x, y): y = x + 1; return y; f(a, 4) is parsed to a Block of the
\* definition and the call, with the cursor at the end of the 24 tokens.
C23_Witness ==
    /\ hist.op = "cursor"
    /\ hist.rule = "parse"
    /\ tokens = P_def
    /\ pc = "parsed"
    /\ i = Len(tokens)
    /\ ast.kind = "Block"
    /\ Len(ast.statements) = 2
    /\ ast.statements[1].kind = "FunctionDef"
    /\ Len(ast.statements[1].params) = 2
    /\ Len(ast.statements[1].statements) = 2

====
